---- MODULE Spec2Model ----
(***************************************************************************)
(* Connection and synchronisation layer of the Freelaince browser          *)
(* extension.                                                              *)
(*                                                                         *)
(* Part 1: WebSocketManager, the background controller that owns the       *)
(* channel to the server.  The repository holds two versions of it, the    *)
(* popup extension's (src/unnamed/part_001) and the overlay front end's    *)
(* (src/front/background.js); `variant` says which one runs.               *)
(*                                                                         *)
(* A browser WebSocket is modelled by its readyState.  The browser         *)
(* delivers its events as tasks: "open" (CONNECTING -> OPEN, then onopen)  *)
(* and "close" (any live state -> CLOSED, then onerror when the            *)
(* connection failed, then onclose).  The handlers are closures over the   *)
(* manager, not over the channel they were installed on, so an event of a  *)
(* channel that is no longer this.ws runs the same code.                   *)
(*                                                                         *)
(* setTimeout callbacks are kept in a bag and may fire in any order: the   *)
(* model does not measure time, it over-approximates the orders in which   *)
(* timers and channel events can interleave.                               *)
(***************************************************************************)
EXTENDS Integers, Sequences, FiniteSets, Bags, TLC

\* ------------------------------------------------------------ constants
maxReconnectAttempts == 5
reconnectDelay == 1000
ManualDelay == 100

\* ------------------------------------------------------------ bounds
\* Channels the controller may create in one run.
MaxChannels == 3
\* Requests from the user interface, disconnect() calls and inbound frames
\* in one run.
MaxRequests == 2

Variants == {"extension", "front"}

DefaultUrl == "ws://localhost:8080"
\* Addresses the settings popup may have stored: any non-empty string is
\* accepted there, so one that the WebSocket constructor rejects is possible.
OtherUrls == {"ws://other:9000", "not a url"}
Urls == {DefaultUrl} \cup OtherUrls
NoUrl == "none"
ValidUrl(u) == u # "not a url"

Msgs == {"m1", "m2"}

\* What the server may send.  A frame is text that is not JSON, the JSON
\* text null, or a JSON object; a field the object lacks reads undefined.
Undefined == "undefined"
KnownTypes == {"bot_response", "chat_answer", "open_tab", "conversation_history",
               "system_message"}
Data(type, message, url, history) ==
  [type |-> type, message |-> message, url |-> url, history |-> history]
InboundData ==
  {Data(type, "hello", Undefined, Undefined) :
     type \in {"bot_response", "chat_answer", "system_message", "typing"}}
  \cup {Data("open_tab", message, "https://example.org", Undefined) :
          message \in {"opened", Undefined}}
  \cup {Data("conversation_history", Undefined, Undefined, history) :
          history \in {"h", Undefined}}
Frames == {<<"text">>, <<"null">>} \cup {<<"object", data>> : data \in InboundData}

Channels == 1..MaxChannels
NoChannel == 0

VARIABLES
  variant,            \* which WebSocketManager source runs
  ws,                 \* this.ws: a channel, or NoChannel for null
  isConnected,        \* this.isConnected
  reconnectAttempts,  \* this.reconnectAttempts
  apiUrl,             \* this.apiUrl
  readyState,         \* readyState of every WebSocket created so far ("NONE": not created)
  chanUrl,            \* the address the newest WebSocket was created with (its url)
  timers,             \* bag of pending setTimeout callbacks
  wire,               \* what ws.send() has written, in order: [ch, type, message]
  settingsLoaded,     \* loadSettings() has completed
  reqs,               \* requests and inbound frames handled so far (bounds the run)
  emitted,            \* notifications the last handler emitted, in order
  tabsCreated,        \* urls the last handler passed to chrome.tabs.create, in order
  rejected,           \* the chat messages whose send was rejected so far
  attempted,          \* what the last handler did at `new WebSocket`: "none", "created", "threw"
  sched,              \* delays of the retries scheduled since the last open, in order
  op                  \* the last handler that ran

wsVars == <<variant, ws, isConnected, reconnectAttempts, apiUrl, readyState, chanUrl,
            timers, wire, settingsLoaded, reqs, emitted, tabsCreated, rejected, attempted,
            sched, op>>

VARIABLES
  calEvents,      \* this.events
  calStorage,     \* localStorage freelaince_calendar
  calSocket,      \* readyState of this.wsSocket ("NONE": not created)
  calStatus,      \* this.connectionStatus
  calPromise,     \* the promise of connectToServer
  calPhase,       \* where init() is: "connecting", "ready" (try done), "sample" (catch done)
  calTimeout,     \* the 5 s timer of establishConnection is pending
  calSelected,    \* this.selectedEvent (its id), or NoEvent
  calSent,        \* what the last handler wrote to the socket
  calUi,          \* what the last handler showed (showError / showSuccess)
  calLocal,       \* events added offline that no snapshot or later edit has touched yet
  calOps,         \* operations so far (bounds the run)
  calOp           \* the last handler that ran, with its input

calVars == <<calEvents, calStorage, calSocket, calStatus, calPromise, calPhase, calTimeout,
             calSelected, calSent, calUi, calLocal, calOps, calOp>>

VARIABLES
  offOffers,        \* this.offers
  offStorage,       \* localStorage freelaince_offers
  offSocket,        \* readyState of the socket of connectAndFetchOffers ("NONE": not created)
  offDataReceived,  \* dataReceived of that socket's handlers
  offPromise,       \* the promise of fetchOffersFromServer ("none": no fetch was needed)
  offTimeout,       \* the 5 s timer of connectAndFetchOffers is pending
  offBefore,        \* what localStorage held when the last load or refresh began
  offSent,          \* what the last handler wrote to the socket
  offUi,            \* what the last handler showed
  offOps,           \* operations so far (bounds the run)
  offOp             \* the last handler that ran

offVars == <<offOffers, offStorage, offSocket, offDataReceived, offPromise, offTimeout,
             offBefore, offSent, offUi, offOps, offOp>>

VARIABLES
  cfEvents,   \* this.events of a calendar that renders its event cards
  cfTarget,   \* the event the last createEventCard was called with: <<event>>, or <<>>
  cfResult    \* what hasConflicts returned for it

cfVars == <<cfEvents, cfTarget, cfResult>>

VARIABLES
  sfForeground,   \* the surface in the foreground: the open popup or the active tab, or NoSurface
  sfInbox,        \* per surface, the notifications (by number) its listener has received
  sfDispatched    \* the notifications dispatched so far: type and foreground at dispatch

sfVars == <<sfForeground, sfInbox, sfDispatched>>

VARIABLES
  updRequest,           \* offerId and newStatus of the last updateOfferStatus call
  updSocket,            \* readyState of the socket of connectAndSendUpdate ("NONE": not created)
  updResponseReceived,  \* responseReceived of that socket's handlers
  updResult,            \* the promise of syncStatusWithServer: "none", "pending", "true", "false"
  updTimeout,           \* the 5 s timer of connectAndSendUpdate is pending
  updFirst,             \* the first frame received on the socket: <<frame>>, or <<>>
  updOld,               \* this.offers before the last handler ran
  updSent,              \* what the last handler wrote to the socket
  updOps,               \* updateOfferStatus calls so far (bounds the run)
  updOp                 \* the last handler that ran

updVars == <<updRequest, updSocket, updResponseReceived, updResult, updTimeout, updFirst,
             updOld, updSent, updOps, updOp>>

VARIABLES
  shown,              \* the popup's indicator carries the class `connected`
  accepts             \* the server accepts the connections made to it

linkVars == <<shown, accepts>>

VARIABLES
  storageLocal,       \* chatVisible and chatMinimized in chrome.storage.local
  overlay,            \* isVisible and isMinimized of the overlay of each page
  pendingSets,        \* per page, its chrome.storage.local.set calls not yet served
  ovInbox,            \* per page, the chrome.storage callbacks not yet run, oldest first
  ovLoading,          \* per page, the get of loadChatState is not yet served
  ovClicks,           \* clicks on the overlays' buttons so far (bounds the run)
  ovOp                \* the last step of this part

ovVars == <<storageLocal, overlay, pendingSets, ovInbox, ovLoading, ovClicks, ovOp>>

vars == <<wsVars, calVars, offVars, cfVars, sfVars, updVars, linkVars, ovVars>>

\* ------------------------------------------------------------ the manager's state as a value
\* Handlers are written as functions from state to state, so that one
\* handler can call another the way the code does.
Cur ==
  [ws |-> ws, isConnected |-> isConnected, reconnectAttempts |-> reconnectAttempts,
   apiUrl |-> apiUrl, readyState |-> readyState, chanUrl |-> chanUrl,
   timers |-> timers, wire |-> wire, emitted |-> <<>>, tabsCreated |-> <<>>,
   attempted |-> "none",
   sched |-> sched]

Constructed ==
  [ws |-> NoChannel, isConnected |-> FALSE, reconnectAttempts |-> 0,
   apiUrl |-> DefaultUrl, readyState |-> [c \in Channels |-> "NONE"],
   chanUrl |-> [c \in Channels |-> NoUrl],
   timers |-> EmptyBag, wire |-> <<>>, emitted |-> <<>>, tabsCreated |-> <<>>,
   attempted |-> "none",
   sched |-> <<>>]

Created(s) == Cardinality({c \in Channels : s.readyState[c] # "NONE"})

\* The requests that set the 100 ms timer whose callback is connect().
ManualRequests == {"RECONNECT", "UPDATE_API_URL"}

Timer(cb, delay) == [cb |-> cb, delay |-> delay]

\* setTimeout(cb, delay).  sched keeps, for the retry callbacks, the delays
\* they were set with since the last open.
setTimeout(s, cb, delay) ==
  [s EXCEPT !.timers = @ (+) SetToBag({Timer(cb, delay)}),
            !.sched = IF cb = "retry" THEN Append(@, delay) ELSE @]

\* WebSocket.close(): starts the closing handshake of a live channel; the
\* close event comes later, as a task.  No effect on CLOSING or CLOSED.
wsClose(s, c) ==
  IF s.readyState[c] \in {"CONNECTING", "OPEN"}
  THEN [s EXCEPT !.readyState[c] = "CLOSING"]
  ELSE s

IsConnecting(s) == s.ws # NoChannel /\ s.readyState[s.ws] = "CONNECTING"

notifyPopup(s, type, data) ==
  [s EXCEPT !.emitted = Append(@, [type |-> type, data |-> data])]

\* attemptReconnect with the delay not multiplied by the attempt count.
attemptReconnect_NoBackoff(s) ==
  IF s.isConnected \/ IsConnecting(s)
  THEN s
  ELSE IF s.reconnectAttempts < maxReconnectAttempts
       THEN setTimeout([s EXCEPT !.reconnectAttempts = @ + 1], "retry", reconnectDelay)
       ELSE s

\* attemptReconnect with the ceiling off by one.
attemptReconnect_OffByOne(s) ==
  IF s.isConnected \/ IsConnecting(s)
  THEN s
  ELSE IF s.reconnectAttempts <= maxReconnectAttempts
       THEN LET n == s.reconnectAttempts + 1
            IN  setTimeout([s EXCEPT !.reconnectAttempts = n],
                           "retry", reconnectDelay * n)
       ELSE s

\* attemptReconnect that counts the attempt and sets no timer.
attemptReconnect_NoTimer(s) ==
  IF s.isConnected \/ IsConnecting(s)
  THEN s
  ELSE IF s.reconnectAttempts < maxReconnectAttempts
       THEN [s EXCEPT !.reconnectAttempts = @ + 1]
       ELSE s

attemptReconnect(s) ==
  IF s.isConnected \/ IsConnecting(s)
  THEN s
  ELSE IF s.reconnectAttempts < maxReconnectAttempts
       THEN LET n == s.reconnectAttempts + 1
            IN  setTimeout([s EXCEPT !.reconnectAttempts = n],
                           "retry", reconnectDelay * n)
       ELSE s

\* connect without the test for a channel that is still connecting.
connect_NoConnectingGuard(s) ==
  IF s.isConnected
  THEN s
  ELSE LET s1 == IF s.ws # NoChannel /\ s.readyState[s.ws] # "CLOSED"
                 THEN wsClose(s, s.ws)
                 ELSE s
       IN  IF ValidUrl(s1.apiUrl)
           THEN LET c == Created(s1) + 1
                IN  [s1 EXCEPT !.ws = c,
                               !.readyState[c] = "CONNECTING",
                               !.chanUrl = [d \in Channels |-> IF d = c THEN s1.apiUrl ELSE NoUrl],
                               !.attempted = "created"]
           ELSE attemptReconnect([s1 EXCEPT !.attempted = "threw"])

\* connect that leaves the channel it replaces as it is.
connect_NoClose(s) ==
  IF s.isConnected \/ IsConnecting(s)
  THEN s
  ELSE IF ValidUrl(s.apiUrl)
       THEN LET c == Created(s) + 1
            IN  [s EXCEPT !.ws = c,
                          !.readyState[c] = "CONNECTING",
                          !.chanUrl = [d \in Channels |-> IF d = c THEN s.apiUrl ELSE NoUrl],
                          !.attempted = "created"]
       ELSE attemptReconnect([s EXCEPT !.attempted = "threw"])

connect(s) ==
  IF s.isConnected \/ IsConnecting(s)
  THEN s
  ELSE LET s1 == IF s.ws # NoChannel /\ s.readyState[s.ws] # "CLOSED"
                 THEN wsClose(s, s.ws)
                 ELSE s
       IN  IF ValidUrl(s1.apiUrl)
           THEN LET c == Created(s1) + 1
                IN  [s1 EXCEPT !.ws = c,
                               !.readyState[c] = "CONNECTING",
                               !.chanUrl = [d \in Channels |-> IF d = c THEN s1.apiUrl ELSE NoUrl],
                               !.attempted = "created"]
           ELSE attemptReconnect([s1 EXCEPT !.attempted = "threw"])

\* sendMessage that drops a message equal to the one written last.
sendMessage_Dedup(s, message, type) ==
  IF s.isConnected /\ s.ws # NoChannel /\ s.readyState[s.ws] = "OPEN"
  THEN IF s.wire # <<>> /\ s.wire[Len(s.wire)] = [ch |-> s.ws, type |-> type, message |-> message]
       THEN s
       ELSE [s EXCEPT !.wire = Append(@, [ch |-> s.ws, type |-> type, message |-> message])]
  ELSE notifyPopup(s, "ERROR", "Connection lost. Trying to reconnect...")

\* sendMessage that drops a message it cannot send without telling anyone.
sendMessage_Silent(s, message, type) ==
  IF s.isConnected /\ s.ws # NoChannel /\ s.readyState[s.ws] = "OPEN"
  THEN [s EXCEPT !.wire = Append(@, [ch |-> s.ws, type |-> type, message |-> message])]
  ELSE s

sendMessage(s, message, type) ==
  IF s.isConnected /\ s.ws # NoChannel /\ s.readyState[s.ws] = "OPEN"
  THEN [s EXCEPT !.wire = Append(@, [ch |-> s.ws, type |-> type, message |-> message])]
  ELSE notifyPopup(s, "ERROR", "Connection lost. Trying to reconnect...")

\* onopen that forgets to reset the attempt counter.
onopen_NoReset(s) ==
  LET s1 == notifyPopup([s EXCEPT !.isConnected = TRUE, !.sched = <<>>],
                        "CONNECTION_STATUS", TRUE)
  IN  IF variant = "extension"
      THEN sendMessage(s1, "sync_history", "sync_history")
      ELSE s1

\* onopen that sends again a chat message that was rejected before.
onopen_Resend(s) ==
  LET s1 == notifyPopup([s EXCEPT !.isConnected = TRUE,
                                  !.reconnectAttempts = 0,
                                  !.sched = <<>>],
                        "CONNECTION_STATUS", TRUE)
      s2 == IF variant = "extension"
            THEN sendMessage(s1, "sync_history", "sync_history")
            ELSE s1
  IN  IF rejected # {}
      THEN sendMessage(s2, CHOOSE m \in rejected : TRUE, "user_message")
      ELSE s2

onopen(s) ==
  LET s1 == notifyPopup([s EXCEPT !.isConnected = TRUE,
                                  !.reconnectAttempts = 0,
                                  !.sched = <<>>],
                        "CONNECTION_STATUS", TRUE)
  IN  IF variant = "extension"
      THEN sendMessage(s1, "sync_history", "sync_history")
      ELSE s1

onerror(s) == [s EXCEPT !.isConnected = FALSE]

\* onclose that tells nobody.
onclose_Quiet(s) == attemptReconnect([s EXCEPT !.isConnected = FALSE])

onclose(s) ==
  attemptReconnect(notifyPopup([s EXCEPT !.isConnected = FALSE],
                               "CONNECTION_STATUS", FALSE))

disconnect(s) ==
  IF s.ws # NoChannel
  THEN [wsClose(s, s.ws) EXCEPT !.ws = NoChannel, !.isConnected = FALSE]
  ELSE s

\* The RECONNECT request of setupMessageListener.
onReconnect(s) ==
  LET s1 == [s EXCEPT !.isConnected = FALSE]
      s2 == IF s1.ws # NoChannel THEN wsClose(s1, s1.ws) ELSE s1
  IN  setTimeout(s2, "RECONNECT", ManualDelay)

\* The UPDATE_API_URL request of setupMessageListener.
onUpdateApiUrl(s, url) ==
  LET s1 == [s EXCEPT !.apiUrl = url, !.isConnected = FALSE]
      s2 == IF s1.ws # NoChannel THEN wsClose(s1, s1.ws) ELSE s1
  IN  setTimeout(s2, "UPDATE_API_URL", ManualDelay)

\* chrome.tabs.create, and in its callback the announcement of the new tab.
\* The front end sends it to the tab that was active before (see Part 5 for
\* who receives a notification).
handleTabOpen(s, data) ==
  LET s1 == [s EXCEPT !.tabsCreated = Append(@, data.url)]
  IN  IF data.message # Undefined
      THEN notifyPopup(s1, "NEW_MESSAGE", data.message)
      ELSE s1

\* The dispatch with an unknown type reported to the user interface.
wsHandleServerMessage_ReportUnknown(s, data) ==
  CASE data.type \in {"bot_response", "chat_answer"} ->
         notifyPopup(s, "NEW_MESSAGE", data.message)
    [] data.type = "open_tab" -> handleTabOpen(s, data)
    [] data.type = "conversation_history" ->
         notifyPopup(s, "CONVERSATION_HISTORY", data.history)
    [] data.type = "system_message" ->
         notifyPopup(s, "SYSTEM_MESSAGE", data.message)
    [] OTHER -> notifyPopup(s, "ERROR", "Unknown message type")

\* handleServerMessage of the controller (the calendar has its own, Part 2).
wsHandleServerMessage(s, data) ==
  CASE data.type \in {"bot_response", "chat_answer"} ->
         notifyPopup(s, "NEW_MESSAGE", data.message)
    [] data.type = "open_tab" -> handleTabOpen(s, data)
    [] data.type = "conversation_history" ->
         notifyPopup(s, "CONVERSATION_HISTORY", data.history)
    [] data.type = "system_message" ->
         notifyPopup(s, "SYSTEM_MESSAGE", data.message)
    [] OTHER -> s

\* What makes handleServerMessage throw before it has done anything: the
\* front end logs data.history.length, the extension data.history?.length.
DispatchThrows(data) ==
  variant = "front" /\ data.type = "conversation_history" /\ data.history = Undefined

\* ws.onmessage: JSON.parse and the dispatch inside one try, whose catch
\* logs.  JSON.parse throws on text that is not JSON; reading data.type
\* throws on null.
onmessage(s, frame) ==
  IF frame[1] # "object"
  THEN s
  ELSE IF DispatchThrows(frame[2])
       THEN s
       ELSE wsHandleServerMessage(s, frame[2])

\* ------------------------------------------------------------ steps
Popup == "popup"

\* chrome.runtime.sendMessage({type, data}): every extension page with a
\* listener gets it; the rejection when there is none is swallowed.
runtimeSendMessage(foreground) == {s \in {Popup} : s = foreground}

\* The popup's listener (src/unnamed/part_007): updateConnectionStatus with
\* the data of every CONNECTION_STATUS it receives, in order.
popupShows(before, notes) ==
  LET status == {k \in 1..Len(notes) : notes[k].type = "CONNECTION_STATUS"}
  IN  IF status = {}
      THEN before
      ELSE notes[CHOOSE k \in status : \A j \in status : j <= k].data

\* A handler's result becomes the state; an open popup takes the
\* notifications (Part 5: the popup receives them while it is open).
CommitWith(s, o, a) ==
  /\ ws' = s.ws
  /\ isConnected' = s.isConnected
  /\ reconnectAttempts' = s.reconnectAttempts
  /\ apiUrl' = s.apiUrl
  /\ readyState' = s.readyState
  /\ chanUrl' = s.chanUrl
  /\ timers' = s.timers
  /\ wire' = s.wire
  /\ emitted' = s.emitted
  /\ tabsCreated' = s.tabsCreated
  /\ attempted' = s.attempted
  /\ sched' = s.sched
  /\ op' = o
  /\ shown' = IF runtimeSendMessage(sfForeground) # {}
              THEN popupShows(shown, s.emitted)
              ELSE shown
  /\ accepts' = a
  /\ UNCHANGED <<calVars, offVars, cfVars, sfVars, updVars, ovVars>>

Commit(s, o) == CommitWith(s, o, accepts)

Op(name, ch) == [name |-> name, ch |-> ch]
\* A close event, with the attempt counter it found.
OpClose(ch, attempts) == [name |-> "close", ch |-> ch, attempts |-> attempts]
\* A request that carries a chat message.
OpWith(name, message, response) ==
  [name |-> name, ch |-> NoChannel, message |-> message, response |-> response]
\* A frame that arrived on a channel.
OpFrame(ch, frame) == [name |-> "message", ch |-> ch, frame |-> frame]

InitState(v) == IF v = "front" THEN connect(Constructed) ELSE Constructed

WsInit(vs) ==
  \E v \in vs :
    LET s == InitState(v)
    IN  /\ variant = v
        /\ ws = s.ws
        /\ isConnected = s.isConnected
        /\ reconnectAttempts = s.reconnectAttempts
        /\ apiUrl = s.apiUrl
        /\ readyState = s.readyState
        /\ chanUrl = s.chanUrl
        /\ timers = s.timers
        /\ wire = s.wire
        /\ emitted = s.emitted
        /\ tabsCreated = s.tabsCreated
        /\ attempted = s.attempted
        /\ sched = s.sched
        /\ settingsLoaded = (v = "front")
        /\ reqs = 0
        /\ rejected = {}
        /\ op = Op("constructor", s.ws)

\* loadSettings(): the stored address, when there is one, then connect().
LoadSettings ==
  /\ variant = "extension"
  /\ ~settingsLoaded
  /\ Created(Cur) < MaxChannels
  /\ \E stored \in Urls \cup {NoUrl} :
       LET s == IF stored # NoUrl THEN [Cur EXCEPT !.apiUrl = stored] ELSE Cur
       IN  Commit(connect(s), Op("loadSettings", NoChannel))
  /\ settingsLoaded' = TRUE
  /\ UNCHANGED <<variant, rejected, reqs>>

\* The browser opens a connecting channel and runs its onopen.
ChannelOpen ==
  \E c \in Channels :
    /\ readyState[c] = "CONNECTING"
    /\ Commit(onopen([Cur EXCEPT !.readyState[c] = "OPEN"]), Op("open", c))
    /\ UNCHANGED <<variant, rejected, settingsLoaded, reqs>>

\* The browser closes a channel: the connection failed, the server or the
\* network closed it, or the closing handshake that close() started ended.
\* A failed connection gets the error event before the close event.
CloseOf(c, failed) ==
  /\ readyState[c] \in {"CONNECTING", "OPEN", "CLOSING"}
  /\ readyState[c] = "CONNECTING" => failed
  /\ LET s0 == [Cur EXCEPT !.readyState[c] = "CLOSED"]
         s1 == IF failed THEN onerror(s0) ELSE s0
     IN  Commit(onclose(s1), OpClose(c, reconnectAttempts))
  /\ UNCHANGED <<variant, rejected, settingsLoaded, reqs>>

ChannelClose == \E c \in Channels, failed \in BOOLEAN : CloseOf(c, failed)

\* A retry timer set by attemptReconnect fires.
RetryTimer ==
  \E t \in BagToSet(timers) :
    /\ t.cb = "retry"
    /\ Created(Cur) < MaxChannels
    /\ LET s0 == [Cur EXCEPT !.timers = @ (-) SetToBag({t})]
       IN  Commit(IF ~s0.isConnected THEN connect(s0) ELSE s0, Op("retryTimer", NoChannel))
    /\ UNCHANGED <<variant, rejected, settingsLoaded, reqs>>

\* The 100 ms timer set by RECONNECT or UPDATE_API_URL fires.
ManualTimer ==
  \E t \in BagToSet(timers) :
    /\ t.cb \in ManualRequests
    /\ Created(Cur) < MaxChannels
    /\ Commit(connect([Cur EXCEPT !.timers = @ (-) SetToBag({t})]),
              Op(IF t.cb = "RECONNECT" THEN "reconnectTimer" ELSE "updateTimer", NoChannel))
    /\ UNCHANGED <<variant, rejected, settingsLoaded, reqs>>

\* What the SEND_MESSAGE case of setupMessageListener answers once
\* sendMessage has returned: the extension calls sendResponse({success: true})
\* whatever sendMessage did, the front end never calls sendResponse.
\* s is the state sendMessage left.
sendMessageResponse(s) ==
  IF variant = "extension" THEN <<[success |-> TRUE]>> ELSE <<>>

SendMessageRequest ==
  /\ reqs < MaxRequests
  /\ \E m \in Msgs :
       /\ LET s == sendMessage(Cur, m, "user_message")
          IN  Commit(s, OpWith("SEND_MESSAGE", m, sendMessageResponse(s)))
       /\ rejected' = IF sendMessage(Cur, m, "user_message").wire = wire
                      THEN rejected \cup {m}
                      ELSE rejected
  /\ reqs' = reqs + 1
  /\ UNCHANGED <<variant, settingsLoaded>>

RequestHistory ==
  /\ variant = "extension"
  /\ reqs < MaxRequests
  /\ Commit(sendMessage(Cur, "sync_history", "sync_history"), Op("REQUEST_HISTORY", NoChannel))
  /\ reqs' = reqs + 1
  /\ UNCHANGED <<variant, rejected, settingsLoaded>>

Reconnect ==
  /\ reqs < MaxRequests
  /\ Commit(onReconnect(Cur), Op("RECONNECT", NoChannel))
  /\ reqs' = reqs + 1
  /\ UNCHANGED <<variant, rejected, settingsLoaded>>

UpdateApiUrl ==
  /\ variant = "extension"
  /\ reqs < MaxRequests
  /\ \E u \in Urls : Commit(onUpdateApiUrl(Cur, u), Op("UPDATE_API_URL", NoChannel))
  /\ reqs' = reqs + 1
  /\ UNCHANGED <<variant, rejected, settingsLoaded>>

\* The browser delivers a frame of an open channel to its onmessage.
ServerMessage ==
  /\ reqs < MaxRequests
  /\ \E c \in Channels, frame \in Frames :
       /\ readyState[c] = "OPEN"
       /\ Commit(onmessage(Cur, frame), OpFrame(c, frame))
  /\ reqs' = reqs + 1
  /\ UNCHANGED <<variant, rejected, settingsLoaded>>

Disconnect ==
  /\ reqs < MaxRequests
  /\ Commit(disconnect(Cur), Op("disconnect", NoChannel))
  /\ reqs' = reqs + 1
  /\ UNCHANGED <<variant, rejected, settingsLoaded>>

Next ==
  \/ LoadSettings
  \/ ChannelOpen
  \/ ChannelClose
  \/ RetryTimer
  \/ ManualTimer
  \/ SendMessageRequest
  \/ RequestHistory
  \/ Reconnect
  \/ UpdateApiUrl
  \/ ServerMessage
  \/ Disconnect

\* ------------------------------------------------------------ the controller and its server
\* The steps of the retry cycle, left to itself (no request of the user),
\* with a server that is down at first and, once it is up, accepts every
\* connection made to it: a channel that is connecting then no longer fails.
EndpointUp ==
  /\ ~accepts
  /\ CommitWith(Cur, Op("endpointUp", NoChannel), TRUE)
  /\ UNCHANGED <<variant, rejected, settingsLoaded, reqs>>

ChannelCloseLink ==
  \E c \in Channels, failed \in BOOLEAN :
    /\ readyState[c] = "CONNECTING" => ~accepts
    /\ CloseOf(c, failed)

NextRetry ==
  \/ LoadSettings
  \/ ChannelOpen
  \/ ChannelCloseLink
  \/ RetryTimer
  \/ EndpointUp

(***************************************************************************)
(* Part 2: CalendarManager (src/unnamed/part_000), the calendar page.  It  *)
(* owns its own WebSocket, keeps this.events in memory and mirrors it in   *)
(* localStorage under freelaince_calendar.  An event is modelled by its    *)
(* id, title, start and end; description, location and priority are        *)
(* carried along by the code without influence on what is modelled here.   *)
(* A Date is <<"date", t>> or <<"invalid">>; its JSON form is <<"iso", t>> *)
(* or <<"null">>.                                                          *)
(***************************************************************************)

\* ------------------------------------------------------------ bounds
\* User operations, server messages and page reloads in one run.
MaxCalOps == 3
\* Events in one server snapshot.
MaxSnapshot == 1

\* ------------------------------------------------------------ values
NoId == ""
\* What generateId() (Math.random) may return.
GenIds == {"g1", "g2"}
Titles == {"A", "B"}
\* Times are hours of the day; 0 stands for a field that is absent (falsy).
Absent == 0

Date(t) == <<"date", t>>
InvalidDate == <<"invalid">>
IsValidDate(d) == d[1] = "date"
\* new Date(x): an absent (undefined) argument gives an Invalid Date.
NewDate(x) == IF x = Absent THEN InvalidDate ELSE Date(x)
\* d1 < d2 on Dates: false whenever one of them is invalid (NaN).
DateLess(d1, d2) == IsValidDate(d1) /\ IsValidDate(d2) /\ d1[2] < d2[2]
DateGeq(d1, d2) == IsValidDate(d1) /\ IsValidDate(d2) /\ d1[2] >= d2[2]

\* JSON.stringify of a Date (toJSON: the ISO string, null when invalid).
DateToJson(d) == IF IsValidDate(d) THEN <<"iso", d[2]>> ELSE <<"null">>
\* new Date(v) of a stored value: new Date(null) is the epoch.
DateFromJson(v) == IF v[1] = "iso" THEN Date(v[2]) ELSE Date(0)

Event(id, title, start, end) == [id |-> id, title |-> title, start |-> start, end |-> end]

Range(q) == {q[i] : i \in 1..Len(q)}

EventToJson(e) == Event(e.id, e.title, DateToJson(e.start), DateToJson(e.end))
EventFromJson(j) == Event(j.id, j.title, DateFromJson(j.start), DateFromJson(j.end))
\* JSON.stringify(this.events)
Stringify(events) == <<"json", [i \in 1..Len(events) |-> EventToJson(events[i])]>>
NoItem == <<"none">>
\* JSON.parse(cached).map(event => ({...event, start: new Date(..), end: new Date(..)}))
ParseStored(item) == [i \in 1..Len(item[2]) |-> EventFromJson(item[2][i])]

\* An event as the server sends it: start_time/end_time or start/end.
RawEvent(id, title, st, s, et, e) ==
  [id |-> id, title |-> title, start_time |-> st, start |-> s, end_time |-> et, end |-> e]

ServerEvents ==
  { RawEvent("s1", "A", 10, Absent, 11, Absent),
    RawEvent("s1", "B", Absent, 10, Absent, 11),
    RawEvent(NoId, "B", Absent, Absent, 11, Absent) }

Snapshots == UNION {[1..n -> ServerEvents] : n \in 0..MaxSnapshot}

\* a || b
OrElse(a, b) == IF a # Absent THEN a ELSE b

\* loadSampleData's three events; hours count from today's midnight.
SampleData ==
  << Event("1", "Team Meeting", Date(14), Date(15)),
     Event("2", "Client Call", Date(34), Date(35)),
     Event("3", "Lunch Break", Date(12), Date(13)) >>

NoEvent == "no event"

CalCur ==
  [events |-> calEvents, storage |-> calStorage, socket |-> calSocket, status |-> calStatus,
   promise |-> calPromise, phase |-> calPhase, timeout |-> calTimeout,
   selected |-> calSelected, sent |-> <<>>, ui |-> <<>>, local |-> calLocal]

\* The state the constructor leaves: init() has set the status and waits
\* for the stored address inside connectToServer.
CalConstructed(item) ==
  [events |-> <<>>, storage |-> item, socket |-> "NONE", status |-> "connecting",
   promise |-> "pending", phase |-> "connecting", timeout |-> FALSE,
   selected |-> NoEvent, sent |-> <<>>, ui |-> <<>>, local |-> {}]

showError(s, message) == [s EXCEPT !.ui = Append(@, <<"error", message>>)]
showSuccess(s, message) == [s EXCEPT !.ui = Append(@, <<"success", message>>)]
updateConnectionStatus(s, status) == [s EXCEPT !.status = status]
closeSidebar(s) == [s EXCEPT !.selected = NoEvent]
setItem(s) == [s EXCEPT !.storage = Stringify(s.events)]

\* parseEventsData; gen[i] is what generateId() returns for the i-th event.
parseEventsData(serverEvents, gen) ==
  [i \in 1..Len(serverEvents) |->
     LET r == serverEvents[i]
     IN  Event(IF r.id # NoId THEN r.id ELSE gen[i],
               r.title,
               NewDate(OrElse(r.start_time, r.start)),
               NewDate(OrElse(r.end_time, r.end)))]

\* requestEvents that never asks.
requestEvents_Never(s) == s

requestEvents(s) ==
  IF s.socket = "OPEN"
  THEN [s EXCEPT !.sent = Append(@, [type |-> "get_schedule"])]
  ELSE s

\* loadSampleData that keeps the sample events in memory only.
loadSampleData_NoPersist(s) == [s EXCEPT !.events = SampleData, !.local = {}]

loadSampleData(s) == setItem([s EXCEPT !.events = SampleData, !.local = {}])

loadEvents(s) ==
  LET s1 == IF s.storage # NoItem
            THEN [s EXCEPT !.events = ParseStored(s.storage)]
            ELSE s
  IN  IF s1.status = "connected" THEN requestEvents(s1) ELSE s1

\* init() after `await this.connectToServer()` has resolved.
initResolved(s) == [loadEvents(s) EXCEPT !.phase = "ready"]

\* init()'s catch.
initRejected(s, message) ==
  [loadSampleData(showError(s, <<"Failed to initialize calendar", message>>))
     EXCEPT !.phase = "sample"]

resolve(s) ==
  IF s.promise = "pending" THEN initResolved([s EXCEPT !.promise = "resolved"]) ELSE s

reject(s, message) ==
  IF s.promise = "pending"
  THEN initRejected([s EXCEPT !.promise = "rejected"], message)
  ELSE s

\* establishConnection; `valid` says whether new WebSocket(wsUrl) accepts the address.
establishConnection(s, valid) ==
  IF valid
  THEN [s EXCEPT !.socket = "CONNECTING", !.timeout = TRUE]
  ELSE reject(s, "SyntaxError")

calOnOpen(s) == resolve(updateConnectionStatus(s, "connected"))
calOnClose(s) == updateConnectionStatus(s, "disconnected")
calOnError(s) == reject(updateConnectionStatus(s, "disconnected"), "Failed to connect to server")

calOnTimeout(s) ==
  IF s.socket # "OPEN"
  THEN reject([s EXCEPT !.socket = IF @ = "CONNECTING" THEN "CLOSING" ELSE @],
              "Connection timeout")
  ELSE s

Snapshot(type, field, list) == [type |-> type, field |-> field, list |-> list]
Ack(type, success) == [type |-> type, success |-> success]
AckTypes == {"event_added", "event_updated", "event_deleted"}

\* How a snapshot message names its list: under events, under schedule, or
\* not at all.
SnapshotShapes ==
  {<<"events_data", "events">>, <<"schedule_data", "schedule">>, <<"schedule_data", "none">>}

\* The list a snapshot message carries for the code:
\* data.events || data.schedule || [].
SnapshotList(data) == IF data.field = "none" THEN <<>> ELSE data.list

\* handleServerMessage that adds a snapshot to what is cached.
handleServerMessage_Merge(s, data, gen) ==
  IF data.type \in {"schedule_data", "events_data"}
  THEN LET s1 == setItem([s EXCEPT !.events = @ \o parseEventsData(SnapshotList(data), gen)])
       IN  [s1 EXCEPT !.local = @ \cap Range(s1.events)]
  ELSE IF data.type \in AckTypes
       THEN IF data.success
            THEN requestEvents(showSuccess(s, data.type))
            ELSE showError(s, data.type)
       ELSE IF data.type = "error"
            THEN showError(s, "Server error")
            ELSE s

handleServerMessage(s, data, gen) ==
  IF data.type \in {"schedule_data", "events_data"}
  THEN LET s1 == setItem([s EXCEPT !.events = parseEventsData(SnapshotList(data), gen)])
       IN  [s1 EXCEPT !.local = @ \cap Range(s1.events)]
  ELSE IF data.type \in AckTypes
       THEN IF data.success
            THEN requestEvents(showSuccess(s, data.type))
            ELSE showError(s, data.type)
       ELSE IF data.type = "error"
            THEN showError(s, "Server error")
            ELSE s

Request(type, e) == [type |-> type, event |-> e]

\* addEvent that keeps an offline event in memory only.
addEvent_NoPersist(s, eventData) ==
  IF s.socket = "OPEN"
  THEN [s EXCEPT !.sent = Append(@, Request("add_event", [eventData EXCEPT !.id = NoId]))]
  ELSE LET s1 == [s EXCEPT !.events = Append(@, eventData)]
       IN  showSuccess(closeSidebar([s1 EXCEPT !.local = @ \cup {eventData}]),
                       "Event added (offline)")

addEvent(s, eventData) ==
  IF s.socket = "OPEN"
  THEN [s EXCEPT !.sent = Append(@, Request("add_event", [eventData EXCEPT !.id = NoId]))]
  ELSE LET s1 == setItem([s EXCEPT !.events = Append(@, eventData)])
       IN  showSuccess(closeSidebar([s1 EXCEPT !.local = @ \cup {eventData}]),
                       "Event added (offline)")

IndexOf(events, id) ==
  IF \E i \in 1..Len(events) : events[i].id = id
  THEN CHOOSE i \in 1..Len(events) :
         events[i].id = id /\ \A j \in 1..(i - 1) : events[j].id # id
  ELSE 0

updateEvent(s, eventData) ==
  IF s.socket = "OPEN"
  THEN [s EXCEPT !.sent = Append(@, Request("update_event", eventData))]
  ELSE LET index == IndexOf(s.events, eventData.id)
       IN  IF index # 0
           THEN LET s1 == setItem([s EXCEPT !.events[index] = eventData])
                IN  showSuccess(closeSidebar([s1 EXCEPT !.local = @ \cap Range(s1.events)]),
                                "Event updated (offline)")
           ELSE s

\* events.filter(e => e.id !== eventId)
WithoutId(events, eventId) ==
  LET F[i \in 0..Len(events)] ==
        IF i = 0 THEN <<>>
        ELSE IF events[i].id # eventId THEN Append(F[i - 1], events[i]) ELSE F[i - 1]
  IN  F[Len(events)]

deleteEventById(s, eventId) ==
  IF s.socket = "OPEN"
  THEN [s EXCEPT !.sent = Append(@, [type |-> "delete_event", id |-> eventId])]
  ELSE LET s1 == setItem([s EXCEPT !.events = WithoutId(s.events, eventId)])
       IN  showSuccess(closeSidebar([s1 EXCEPT !.local = @ \cap Range(s1.events)]),
                       "Event deleted (offline)")

\* saveEvent; form is what the (required) form fields hold, newId what
\* generateId() returns when no event is selected.
\* saveEvent whose validation lets an event of no duration through.
saveEvent_EmptyAllowed(s, form, newId) ==
  LET eventData == Event(IF s.selected # NoEvent THEN s.selected ELSE newId,
                         form.title, Date(form.startTime), Date(form.endTime))
  IN  IF form.startTime > form.endTime
      THEN showError(s, "End time must be after start time")
      ELSE IF s.selected # NoEvent
           THEN updateEvent(s, eventData)
           ELSE addEvent(s, eventData)

saveEvent(s, form, newId) ==
  LET eventData == Event(IF s.selected # NoEvent THEN s.selected ELSE newId,
                         form.title, Date(form.startTime), Date(form.endTime))
  IN  IF DateGeq(eventData.start, eventData.end)
      THEN showError(s, "End time must be after start time")
      ELSE IF s.selected # NoEvent
           THEN updateEvent(s, eventData)
           ELSE addEvent(s, eventData)

Form(title, startTime, endTime) == [title |-> title, startTime |-> startTime, endTime |-> endTime]
\* What the user may submit: an event of one hour under either title, one
\* that ends when it starts and one that ends before it starts.
Forms == {Form(title, 10, 11) : title \in Titles} \cup {Form("A", 11, 11), Form("A", 11, 10)}

\* ------------------------------------------------------------ steps of the calendar
CalOp(name, input) == [name |-> name, input |-> input]

CalAssign(s, o) ==
  /\ calEvents' = s.events
  /\ calStorage' = s.storage
  /\ calSocket' = s.socket
  /\ calStatus' = s.status
  /\ calPromise' = s.promise
  /\ calPhase' = s.phase
  /\ calTimeout' = s.timeout
  /\ calSelected' = s.selected
  /\ calSent' = s.sent
  /\ calUi' = s.ui
  /\ calLocal' = s.local
  /\ calOp' = o

CalCommit(s, o) ==
  CalAssign(s, o) /\ UNCHANGED <<wsVars, offVars, cfVars, sfVars, updVars, linkVars, ovVars>>

\* What localStorage may hold when the page is first opened.
InitialItems ==
  { NoItem,
    Stringify(<<Event("s1", "A", Date(10), Date(11))>>),
    Stringify(<<Event("g1", "B", Date(10), Date(11)), Event("s1", "A", InvalidDate, Date(11))>>) }

CalInitWith(item) ==
  LET s == CalConstructed(item)
  IN  /\ calEvents = s.events
      /\ calStorage = s.storage
      /\ calSocket = s.socket
      /\ calStatus = s.status
      /\ calPromise = s.promise
      /\ calPhase = s.phase
      /\ calTimeout = s.timeout
      /\ calSelected = s.selected
      /\ calSent = s.sent
      /\ calUi = s.ui
      /\ calLocal = s.local
      /\ calOps = 0
      /\ calOp = CalOp("constructor", <<>>)

\* connectToServer's storage callback: establishConnection(wsUrl, ...).
CalEstablish ==
  /\ calPhase = "connecting"
  /\ calSocket = "NONE"
  /\ calPromise = "pending"
  /\ \E valid \in BOOLEAN :
       CalCommit(establishConnection(CalCur, valid), CalOp("establishConnection", <<valid>>))
  /\ UNCHANGED calOps

CalOpen ==
  /\ calSocket = "CONNECTING"
  /\ CalCommit(calOnOpen([CalCur EXCEPT !.socket = "OPEN"]), CalOp("open", <<>>))
  /\ UNCHANGED calOps

\* The socket closes; a failed connection gets onerror before onclose.
CalClose ==
  /\ calSocket \in {"CONNECTING", "OPEN", "CLOSING"}
  /\ \E failed \in BOOLEAN :
       /\ calSocket = "CONNECTING" => failed
       /\ LET s0 == [CalCur EXCEPT !.socket = "CLOSED"]
              s1 == IF failed THEN calOnError(s0) ELSE s0
          IN  CalCommit(calOnClose(s1), CalOp("close", <<failed>>))
  /\ UNCHANGED calOps

CalTimeout ==
  /\ calTimeout
  /\ CalCommit(calOnTimeout([CalCur EXCEPT !.timeout = FALSE]), CalOp("timeout", <<>>))
  /\ UNCHANGED calOps

\* A message arrives on the open socket.
CalServerMessage ==
  /\ calSocket = "OPEN"
  /\ calOps < MaxCalOps
  /\ \/ \E shape \in SnapshotShapes, list \in Snapshots :
          LET type == shape[1]
              field == shape[2]
          IN
            /\ field = "none" => list = <<>>
            /\ \E gen \in [1..Len(list) -> GenIds] :
                 \* generateId() is called only for an event without id
                 /\ \A i \in 1..Len(list) : list[i].id # NoId => gen[i] = "g1"
                 /\ CalCommit(handleServerMessage(CalCur, Snapshot(type, field, list), gen),
                              CalOp("snapshot", <<SnapshotList(Snapshot(type, field, list)),
                                                  calLocal>>))
     \/ \E type \in AckTypes, success \in BOOLEAN :
            CalCommit(handleServerMessage(CalCur, Ack(type, success), <<>>),
                      CalOp("ack", <<type, success>>))
     \/ CalCommit(handleServerMessage(CalCur, [type |-> "error"], <<>>), CalOp("error", <<>>))
  /\ calOps' = calOps + 1

\* The user opens an event of the rendered calendar (showEventDetails).
CalSelectEvent ==
  /\ calPhase # "connecting"
  /\ \E i \in 1..Len(calEvents) :
       /\ calSelected # calEvents[i].id
       /\ CalCommit([CalCur EXCEPT !.selected = calEvents[i].id], CalOp("showEventDetails", <<>>))
  /\ UNCHANGED calOps

\* The user opens the empty form (showAddEventForm).
CalShowAddForm ==
  /\ calPhase # "connecting"
  /\ calSelected # NoEvent
  /\ CalCommit([CalCur EXCEPT !.selected = NoEvent], CalOp("showAddEventForm", <<>>))
  /\ UNCHANGED calOps

\* The form is submitted; its handler exists once setupEventListeners ran.
CalSaveEvent ==
  /\ calPhase = "ready"
  /\ calOps < MaxCalOps
  /\ \E form \in Forms, newId \in GenIds :
       \* generateId() is called only when no event is selected
       /\ calSelected # NoEvent => newId = "g1"
       /\ CalCommit(saveEvent(CalCur, form, newId),
                 CalOp("saveEvent",
                       Event(IF calSelected # NoEvent THEN calSelected ELSE newId,
                             form.title, Date(form.startTime), Date(form.endTime))))
  /\ calOps' = calOps + 1

\* The user deletes an event, from its card or from the sidebar, and confirms.
CalDeleteEvent ==
  /\ calPhase # "connecting"
  /\ calOps < MaxCalOps
  /\ \/ \E i \in 1..Len(calEvents) :
          CalCommit(deleteEventById(CalCur, calEvents[i].id),
                    CalOp("deleteEventById", calEvents[i].id))
     \* deleteSelectedEvent: the sidebar's button, bound by setupEventListeners
     \/ /\ calPhase = "ready"
        /\ calSelected # NoEvent
        /\ CalCommit(deleteEventById(CalCur, calSelected), CalOp("deleteEventById", calSelected))
  /\ calOps' = calOps + 1

\* The page is reloaded: a new CalendarManager over the same localStorage.
CalReload ==
  /\ calOps < MaxCalOps
  /\ CalCommit([CalConstructed(calStorage) EXCEPT !.local = calLocal], CalOp("reload", <<>>))
  /\ calOps' = calOps + 1

NextCal ==
  \/ CalEstablish
  \/ CalOpen
  \/ CalClose
  \/ CalTimeout
  \/ CalServerMessage
  \/ CalSelectEvent
  \/ CalShowAddForm
  \/ CalSaveEvent
  \/ CalDeleteEvent
  \/ CalReload

(***************************************************************************)
(* Part 3: OffersManager (src/unnamed/part_005), the offers page.  It      *)
(* keeps this.offers in memory and mirrors it in localStorage under        *)
(* freelaince_offers; when nothing is stored it opens a WebSocket of its   *)
(* own, asks for the offers once and closes it.  An offer is modelled by   *)
(* its offer_id, status and date_time.  this.filteredOffers is the view    *)
(* the filters derive from this.offers and is not modelled.                *)
(***************************************************************************)

\* ------------------------------------------------------------ bounds
\* Refreshes and server messages in one run of the offers page.
MaxOffOps == 3

Offer(id, status, date) == [offer_id |-> id, status |-> status, date_time |-> date]

\* JSON.stringify of an offer: a Date becomes its ISO string, a string stays.
OfferToJson(o) ==
  Offer(o.offer_id, o.status, IF o.date_time[1] = "date" THEN DateToJson(o.date_time) ELSE o.date_time)

\* JSON.stringify(this.offers)
StringifyOffers(offers) == <<"json", [i \in 1..Len(offers) |-> OfferToJson(offers[i])]>>
\* JSON.parse(cachedOffers): nothing revives the dates, they stay strings.
ParseOffers(item) == item[2]

\* loadSampleData's offers: their date_time is a Date object.
SampleOffers ==
  << Offer("12345678", "pending", Date(14)),
     Offer("87654321", "accepted", Date(9)),
     Offer("45678901", "completed", Date(16)) >>

\* What the server may send under data.offers: dates travel as strings.
ServerOffers ==
  { <<>>,
    <<Offer("o1", "pending", <<"iso", 10>>)>>,
    <<Offer("o1", "accepted", <<"iso", 10>>), Offer("o2", "pending", <<"iso", 12>>)>> }

\* What localStorage may hold under freelaince_offers when the page opens.
InitialOfferItems ==
  {NoItem} \cup {StringifyOffers(l) : l \in ServerOffers \ {<<>>}} \cup {StringifyOffers(SampleOffers)}

OffCur ==
  [offers |-> offOffers, storage |-> offStorage, socket |-> offSocket,
   dataReceived |-> offDataReceived, promise |-> offPromise, timeout |-> offTimeout,
   before |-> offBefore, sent |-> <<>>, ui |-> <<>>]

offShowError(s, message) == [s EXCEPT !.ui = Append(@, <<"error", message>>)]

offSetItem(s) == [s EXCEPT !.storage = StringifyOffers(s.offers)]

offLoadSampleData(s) == offSetItem([s EXCEPT !.offers = SampleOffers])

\* loadOffers up to its first await: the cached offers when there are some,
\* otherwise fetchOffersFromServer, which waits for the stored address.
offLoadOffers(s) ==
  IF s.storage # NoItem
  THEN [s EXCEPT !.offers = ParseOffers(s.storage), !.promise = "none"]
  ELSE [s EXCEPT !.promise = "pending", !.socket = "NONE", !.dataReceived = FALSE,
                 !.timeout = FALSE]

offResolve(s) == IF s.promise = "pending" THEN [s EXCEPT !.promise = "resolved"] ELSE s

\* reject(): loadOffers' catch loads the sample data.
offReject(s) ==
  IF s.promise = "pending"
  THEN offLoadSampleData([s EXCEPT !.promise = "rejected"])
  ELSE s

\* connectAndFetchOffers; `valid` says whether new WebSocket(wsUrl) accepts the address.
connectAndFetchOffers(s, valid) ==
  IF valid
  THEN [s EXCEPT !.socket = "CONNECTING", !.timeout = TRUE]
  ELSE offReject(s)

offOnOpen(s) == [s EXCEPT !.sent = Append(@, [type |-> "get_offers"])]

\* data.offers || []
OffersOf(data) == IF "offers" \in DOMAIN data THEN data.offers ELSE <<>>

\* socket.onmessage; a frame is <<"unparsable">> or a parsed message.
offOnMessage(s, frame) ==
  IF frame[1] = "unparsable"
  THEN offReject(s)
  ELSE LET data == frame[2]
       IN  IF data.type = "offers_data"
           THEN offResolve([offSetItem([s EXCEPT !.dataReceived = TRUE, !.offers = OffersOf(data)])
                              EXCEPT !.socket = IF @ \in {"CONNECTING", "OPEN"} THEN "CLOSING" ELSE @])
           ELSE s

offOnError(s) == offReject(s)

offOnClose(s) == IF ~s.dataReceived THEN offReject(s) ELSE s

offOnTimeout(s) ==
  IF ~s.dataReceived
  THEN offReject([s EXCEPT !.socket = IF @ \in {"CONNECTING", "OPEN"} THEN "CLOSING" ELSE @])
  ELSE s

\* refreshOffers: the cache is cleared, then loadOffers runs.
refreshOffers(s) == offLoadOffers([s EXCEPT !.before = s.storage, !.storage = NoItem])

\* ------------------------------------------------------------ steps of the offers page
OffAssign(s, o) ==
  /\ offOffers' = s.offers
  /\ offStorage' = s.storage
  /\ offSocket' = s.socket
  /\ offDataReceived' = s.dataReceived
  /\ offPromise' = s.promise
  /\ offTimeout' = s.timeout
  /\ offBefore' = s.before
  /\ offSent' = s.sent
  /\ offUi' = s.ui
  /\ offOp' = o

OffCommit(s, o) ==
  OffAssign(s, o) /\ UNCHANGED <<wsVars, calVars, cfVars, sfVars, updVars, linkVars, ovVars>>

\* new OffersManager(): init() runs loadOffers up to its first await.
OffConstructed(item) ==
  offLoadOffers([offers |-> <<>>, storage |-> item, socket |-> "NONE", dataReceived |-> FALSE,
                 promise |-> "none", timeout |-> FALSE, before |-> item,
                 sent |-> <<>>, ui |-> <<>>])

OffInitWith(item) ==
  LET s == OffConstructed(item)
  IN  /\ offOffers = s.offers
      /\ offStorage = s.storage
      /\ offSocket = s.socket
      /\ offDataReceived = s.dataReceived
      /\ offPromise = s.promise
      /\ offTimeout = s.timeout
      /\ offBefore = s.before
      /\ offSent = s.sent
      /\ offUi = s.ui
      /\ offOps = 0
      /\ offOp = "constructor"

\* fetchOffersFromServer's storage callback: connectAndFetchOffers(wsUrl, ...).
OffConnect ==
  /\ offPromise = "pending"
  /\ offSocket = "NONE"
  /\ \E valid \in BOOLEAN : OffCommit(connectAndFetchOffers(OffCur, valid), "connectAndFetchOffers")
  /\ UNCHANGED offOps

OffOpen ==
  /\ offSocket = "CONNECTING"
  /\ OffCommit(offOnOpen([OffCur EXCEPT !.socket = "OPEN"]), "open")
  /\ UNCHANGED offOps

\* The socket closes; a failed connection gets onerror before onclose.
OffClose ==
  /\ offSocket \in {"CONNECTING", "OPEN", "CLOSING"}
  /\ \E failed \in BOOLEAN :
       /\ offSocket = "CONNECTING" => failed
       /\ LET s0 == [OffCur EXCEPT !.socket = "CLOSED"]
              s1 == IF failed THEN offOnError(s0) ELSE s0
          IN  OffCommit(offOnClose(s1), "close")
  /\ UNCHANGED offOps

OffTimeout ==
  /\ offTimeout
  /\ OffCommit(offOnTimeout([OffCur EXCEPT !.timeout = FALSE]), "timeout")
  /\ UNCHANGED offOps

\* A frame arrives on the open socket.
OffServerMessage ==
  /\ offSocket = "OPEN"
  /\ offOps < MaxOffOps
  /\ \/ \E list \in ServerOffers :
          OffCommit(offOnMessage(OffCur, <<"json", [type |-> "offers_data", offers |-> list]>>),
                    "offers_data")
     \/ OffCommit(offOnMessage(OffCur, <<"json", [type |-> "offers_data"]>>), "offers_data")
     \/ OffCommit(offOnMessage(OffCur, <<"json", [type |-> "connection_established"]>>), "other")
     \/ OffCommit(offOnMessage(OffCur, <<"unparsable">>), "unparsable")
  /\ offOps' = offOps + 1

\* F5 or Ctrl+R: refreshOffers.  It is taken here once the previous load has
\* ended and its socket can no longer deliver anything.
OffRefresh ==
  /\ offPromise # "pending"
  /\ offSocket \notin {"CONNECTING", "OPEN"}
  /\ offOps < MaxOffOps
  /\ OffCommit(refreshOffers(OffCur), "refreshOffers")
  /\ offOps' = offOps + 1

NextOffers ==
  \/ OffConnect
  \/ OffOpen
  \/ OffClose
  \/ OffTimeout
  \/ OffServerMessage
  \/ OffRefresh

(***************************************************************************)
(* Part 4: the conflict mark of an event card (src/unnamed/part_000,       *)
(* createEventCard / hasConflicts / eventsOverlap), a pure function of     *)
(* this.events and the event rendered.  The cache is drawn from a pool of  *)
(* events that lie back to back, overlap, are inverted or have no start.   *)
(***************************************************************************)

\* ------------------------------------------------------------ bounds
\* Events in the cache whose cards are rendered.
MaxCached == 2

\* d1 > d2 on Dates: false whenever one of them is invalid (NaN).
DateGreater(d1, d2) == IsValidDate(d1) /\ IsValidDate(d2) /\ d1[2] > d2[2]

\* eventsOverlap with the shared endpoint counted as overlap.
eventsOverlap_Closed(event1, event2) ==
  /\ IsValidDate(event1.start) /\ IsValidDate(event2.end) /\ event1.start[2] <= event2.end[2]
  /\ IsValidDate(event1.end) /\ IsValidDate(event2.start) /\ event1.end[2] >= event2.start[2]

eventsOverlap(event1, event2) ==
  /\ DateLess(event1.start, event2.end)
  /\ DateGreater(event1.end, event2.start)

\* this.events.some(event => event.id !== targetEvent.id && this.eventsOverlap(event, targetEvent))
hasConflicts(events, targetEvent) ==
  \E i \in 1..Len(events) :
    events[i].id # targetEvent.id /\ eventsOverlap(events[i], targetEvent)

\* <<start, end>> of the events a cache may hold: 10-11 and 11-12 lie back
\* to back, 10-12 overlaps both, 12-10 is inverted (the server's events are
\* not validated), and one has no start.
CachedSpans == {<<10, 11>>, <<11, 12>>, <<10, 12>>, <<12, 10>>, <<Absent, 11>>}
CachedIds == {"a", "b"}
CachedEvents ==
  {Event(id, "A", NewDate(span[1]), NewDate(span[2])) : id \in CachedIds, span \in CachedSpans}
Caches == UNION {[1..n -> CachedEvents] : n \in 0..MaxCached}

CfInitWith(events) ==
  /\ cfEvents = events
  /\ cfTarget = <<>>
  /\ cfResult = FALSE

\* createEventCard(event) for an event of the cache: the card is marked
\* when hasConflicts(event).
CreateEventCard ==
  /\ \E i \in 1..Len(cfEvents) :
       /\ cfTarget' = <<cfEvents[i]>>
       /\ cfResult' = hasConflicts(cfEvents, cfEvents[i])
  /\ UNCHANGED <<cfEvents, wsVars, calVars, offVars, sfVars, updVars, linkVars, ovVars>>

NextConflicts == CreateEventCard

(***************************************************************************)
(* Part 5: who receives a notification.  The extension's controller calls  *)
(* chrome.runtime.sendMessage (notifyPopup, src/unnamed/part_001), which   *)
(* reaches the extension pages that listen: the popup, while it is open.   *)
(* The front end's controller asks for the active tab of the current       *)
(* window and sends to that tab's overlay (notifyContentScript and         *)
(* handleTabOpen, src/front/background.js).  A popup is open only while it *)
(* has the focus, so an open popup is the surface in the foreground.       *)
(* A notification is dispatched when its handler runs; the queries and     *)
(* callbacks of one handler are taken as one step.                         *)
(***************************************************************************)

\* ------------------------------------------------------------ bounds
\* Notifications dispatched in one run.
MaxNotes == 2

NoSurface == "none"
Tabs == {"tab1", "tab2"}
\* The tab an open_tab message creates.
NewTab == "tab3"
AllSurfaces == {Popup} \cup Tabs \cup {NewTab}
Surfaces(v) == IF v = "extension" THEN {Popup} ELSE Tabs \cup {NewTab}
NoteTypes == {"NEW_MESSAGE", "CONNECTION_STATUS"}

\* notifyContentScript sending to every tab.
notifyContentScript_AllTabs(foreground) == Tabs

\* chrome.tabs.query({active: true, currentWindow: true}), then
\* chrome.tabs.sendMessage(tabs[0].id, ...) if (tabs[0]).
notifyContentScript(foreground) ==
  IF foreground # NoSurface THEN {foreground} ELSE {}

\* The surfaces a notification dispatched now is delivered to.
Receivers(v, foreground) ==
  IF v = "extension" THEN runtimeSendMessage(foreground) ELSE notifyContentScript(foreground)

Deliver(to) ==
  /\ sfInbox' = [s \in AllSurfaces |->
                   IF s \in to THEN sfInbox[s] \cup {Len(sfDispatched) + 1} ELSE sfInbox[s]]

SfInitWith(foreground) ==
  /\ sfForeground = foreground
  /\ sfInbox = [s \in AllSurfaces |-> {}]
  /\ sfDispatched = <<>>

\* The user opens or closes the popup, activates another tab, or leaves the
\* browser window.
SwitchSurface ==
  /\ \E s \in Surfaces(variant) \cup {NoSurface} :
       /\ s # sfForeground
       /\ sfForeground' = s
  /\ UNCHANGED <<sfInbox, sfDispatched, wsVars, calVars, offVars, cfVars, updVars, linkVars, ovVars>>

\* The controller calls notifyPopup / notifyContentScript.
Notify ==
  /\ Len(sfDispatched) < MaxNotes
  /\ \E type \in NoteTypes :
       /\ sfDispatched' = Append(sfDispatched, [type |-> type, foreground |-> sfForeground])
       /\ Deliver(Receivers(variant, sfForeground))
  /\ UNCHANGED <<sfForeground, wsVars, calVars, offVars, cfVars, updVars, linkVars, ovVars>>

\* handleTabOpen for an open_tab message that carries a message.  The new
\* tab takes the foreground.  The front end remembers the tab that was
\* active before and sends to it; the extension notifies in the callback of
\* chrome.tabs.create, when the popup has lost the focus and is closed.
NotifyTabOpen ==
  /\ Len(sfDispatched) < MaxNotes
  /\ sfDispatched' = Append(sfDispatched, [type |-> "NEW_MESSAGE", foreground |-> sfForeground])
  /\ IF variant = "extension"
     THEN /\ sfForeground' = NoSurface
          /\ Deliver(runtimeSendMessage(NoSurface))
     ELSE /\ sfForeground' = NewTab
          /\ Deliver(IF sfForeground # NoSurface THEN {sfForeground} ELSE {})
  /\ UNCHANGED <<wsVars, calVars, offVars, cfVars, updVars, linkVars, ovVars>>

NextSurfaces ==
  \/ SwitchSurface
  \/ Notify
  \/ NotifyTabOpen

(***************************************************************************)
(* Part 6: OffersManager.updateOfferStatus (src/unnamed/part_005).  Each   *)
(* call opens a WebSocket of its own (connectAndSendUpdate), sends one     *)
(* update_offer_status and decides the promise of syncStatusWithServer     *)
(* from what comes back.  The rest of updateOfferStatus runs as a          *)
(* microtask of the handler that decided the promise, so it is part of     *)
(* that handler's step.  A new call is taken once the previous promise is  *)
(* decided; the handlers of the earlier socket can then only call resolve  *)
(* on a decided promise.                                                   *)
(***************************************************************************)

\* ------------------------------------------------------------ bounds
\* updateOfferStatus calls in one run.
MaxUpdates == 2

Statuses == {"pending", "accepted", "declined", "completed"}
UpdateRequest(offerId, newStatus) == [offerId |-> offerId, status |-> newStatus]
NoRequest == UpdateRequest("", "")
\* An id no offer carries: the offer was removed while the call waited.
GoneId == "gone"

\* What the server may answer.
UpdateReplies ==
  {[type |-> "offer_status_updated", success |-> b] : b \in BOOLEAN}
  \cup {[type |-> "connection_established"], [type |-> "error", success |-> TRUE]}
UpdateFrames == {<<"unparsable">>, <<"null">>} \cup {<<"json", r>> : r \in UpdateReplies}

UpdCur ==
  [offers |-> offOffers, storage |-> offStorage, ui |-> <<>>, sent |-> <<>>,
   request |-> updRequest, socket |-> updSocket, responseReceived |-> updResponseReceived,
   result |-> updResult, timeout |-> updTimeout]

offShowSuccess(s, message) == [s EXCEPT !.ui = Append(@, <<"success", message>>)]

\* this.offers.find(o => o.offer_id === offerId), as an index (0: undefined)
FindOffer(offers, offerId) ==
  IF \E i \in 1..Len(offers) : offers[i].offer_id = offerId
  THEN CHOOSE i \in 1..Len(offers) :
         /\ offers[i].offer_id = offerId
         /\ \A j \in 1..(i - 1) : offers[j].offer_id # offerId
  ELSE 0

\* The buttons renderOfferCard draws for an offer of each status.
Buttons(status) ==
  CASE status = "pending" -> {"accepted", "declined"}
    [] status = "accepted" -> {"completed", "declined"}
    [] status = "declined" -> {"pending"}
    [] status = "completed" -> {"accepted"}
    [] OTHER -> {}

\* The rest of updateOfferStatus applying only what the buttons offer.
updateOfferStatusResume_ButtonsOnly(s, serverSuccess) ==
  IF serverSuccess
  THEN LET i == FindOffer(s.offers, s.request.offerId)
       IN  IF i # 0 /\ s.request.status \in Buttons(s.offers[i].status)
           THEN offShowSuccess(offSetItem([s EXCEPT !.offers[i].status = s.request.status]),
                               "Offer status updated")
           ELSE s
  ELSE offShowError(s, "Failed to update offer status on server")

\* The rest of updateOfferStatus applying the status before the server has
\* confirmed it.
updateOfferStatusResume_Optimistic(s, serverSuccess) ==
  LET i == FindOffer(s.offers, s.request.offerId)
      s1 == IF i # 0
            THEN offSetItem([s EXCEPT !.offers[i].status = s.request.status])
            ELSE s
  IN  IF serverSuccess
      THEN IF i # 0 THEN offShowSuccess(s1, "Offer status updated") ELSE s1
      ELSE offShowError(s1, "Failed to update offer status on server")

\* updateOfferStatus after `await this.syncStatusWithServer(...)`.
updateOfferStatusResume(s, serverSuccess) ==
  IF serverSuccess
  THEN LET i == FindOffer(s.offers, s.request.offerId)
       IN  IF i # 0
           THEN offShowSuccess(offSetItem([s EXCEPT !.offers[i].status = s.request.status]),
                               "Offer status updated")
           ELSE s
  ELSE offShowError(s, "Failed to update offer status on server")

\* resolve(value) of syncStatusWithServer's promise: the first call decides
\* it and lets updateOfferStatus go on, a later call does nothing.
updResolve(s, value) ==
  IF s.result = "pending"
  THEN updateOfferStatusResume([s EXCEPT !.result = IF value THEN "true" ELSE "false"], value)
  ELSE s

updSocketClose(s) ==
  [s EXCEPT !.socket = IF @ \in {"CONNECTING", "OPEN"} THEN "CLOSING" ELSE @]

\* updateOfferStatus up to its await: syncStatusWithServer waits for the
\* stored address.
updateOfferStatus(s, offerId, newStatus) ==
  [s EXCEPT !.request = UpdateRequest(offerId, newStatus), !.result = "pending",
            !.socket = "NONE", !.responseReceived = FALSE, !.timeout = FALSE]

\* connectAndSendUpdate; `valid` says whether new WebSocket(wsUrl) accepts the address.
connectAndSendUpdate(s, valid) ==
  IF valid
  THEN [s EXCEPT !.socket = "CONNECTING", !.timeout = TRUE]
  ELSE updResolve(s, FALSE)

updOnOpen(s) ==
  [s EXCEPT !.sent = Append(@, [type |-> "update_offer_status",
                                offer_id |-> s.request.offerId, status |-> s.request.status])]

\* response.type === 'offer_status_updated' && response.success
Succeeded(response) ==
  /\ response.type = "offer_status_updated"
  /\ "success" \in DOMAIN response
  /\ response.success

\* socket.onmessage that takes any offer_status_updated for a success.
updOnMessage_AnyReply(s, frame) ==
  IF frame[1] = "unparsable"
  THEN updResolve(s, FALSE)
  ELSE LET s1 == updSocketClose([s EXCEPT !.responseReceived = TRUE])
       IN  IF frame[1] = "null"
           THEN updResolve(s1, FALSE)
           ELSE updResolve(s1, frame[2].type = "offer_status_updated")

\* socket.onmessage.  JSON.parse throws on text that is not JSON before
\* responseReceived is set; reading response.type throws on null after it.
updOnMessage(s, frame) ==
  IF frame[1] = "unparsable"
  THEN updResolve(s, FALSE)
  ELSE LET s1 == updSocketClose([s EXCEPT !.responseReceived = TRUE])
       IN  IF frame[1] = "null"
           THEN updResolve(s1, FALSE)
           ELSE updResolve(s1, Succeeded(frame[2]))

updOnError(s) == IF ~s.responseReceived THEN updResolve(s, FALSE) ELSE s

updOnClose(s) == IF ~s.responseReceived THEN updResolve(s, FALSE) ELSE s

updOnTimeout(s) ==
  IF ~s.responseReceived
  THEN updResolve(updSocketClose(s), FALSE)
  ELSE s

\* ------------------------------------------------------------ steps of a status update
UpdCommit(s, o) ==
  /\ offOffers' = s.offers
  /\ offStorage' = s.storage
  /\ offUi' = s.ui
  /\ updRequest' = s.request
  /\ updSocket' = s.socket
  /\ updResponseReceived' = s.responseReceived
  /\ updResult' = s.result
  /\ updTimeout' = s.timeout
  /\ updSent' = s.sent
  /\ updOld' = offOffers
  /\ updOp' = o
  /\ UNCHANGED <<offSocket, offDataReceived, offPromise, offTimeout, offBefore, offSent,
                 offOps, offOp>>
  /\ UNCHANGED <<wsVars, calVars, cfVars, sfVars, linkVars, ovVars>>

UpdInit ==
  /\ updRequest = NoRequest
  /\ updSocket = "NONE"
  /\ updResponseReceived = FALSE
  /\ updResult = "none"
  /\ updTimeout = FALSE
  /\ updFirst = <<>>
  /\ updOld = <<>>
  /\ updSent = <<>>
  /\ updOps = 0
  /\ updOp = "constructor"

\* A button of an offer card, or any other caller, calls updateOfferStatus.
UpdStart ==
  /\ updResult # "pending"
  /\ updOps < MaxUpdates
  /\ \E offerId \in {offOffers[i].offer_id : i \in 1..Len(offOffers)} \cup {GoneId},
        newStatus \in Statuses :
       UpdCommit(updateOfferStatus(UpdCur, offerId, newStatus), "updateOfferStatus")
  /\ updFirst' = <<>>
  /\ updOps' = updOps + 1

\* syncStatusWithServer's storage callback: connectAndSendUpdate(wsUrl, ...).
UpdConnect ==
  /\ updResult = "pending"
  /\ updSocket = "NONE"
  /\ \E valid \in BOOLEAN : UpdCommit(connectAndSendUpdate(UpdCur, valid), "connectAndSendUpdate")
  /\ UNCHANGED <<updFirst, updOps>>

UpdOpen ==
  /\ updSocket = "CONNECTING"
  /\ UpdCommit(updOnOpen([UpdCur EXCEPT !.socket = "OPEN"]), "open")
  /\ UNCHANGED <<updFirst, updOps>>

\* The socket closes; a failed connection gets onerror before onclose.
UpdClose ==
  /\ updSocket \in {"CONNECTING", "OPEN", "CLOSING"}
  /\ \E failed \in BOOLEAN :
       /\ updSocket = "CONNECTING" => failed
       /\ LET s0 == [UpdCur EXCEPT !.socket = "CLOSED"]
              s1 == IF failed THEN updOnError(s0) ELSE s0
          IN  UpdCommit(updOnClose(s1), "close")
  /\ UNCHANGED <<updFirst, updOps>>

UpdTimeout ==
  /\ updTimeout
  /\ UpdCommit(updOnTimeout([UpdCur EXCEPT !.timeout = FALSE]), "timeout")
  /\ UNCHANGED <<updFirst, updOps>>

\* A frame arrives on the open socket.
UpdServerMessage ==
  /\ updSocket = "OPEN"
  /\ \E frame \in UpdateFrames :
       /\ UpdCommit(updOnMessage(UpdCur, frame), "message")
       /\ updFirst' = IF updFirst = <<>> THEN <<frame>> ELSE updFirst
  /\ UNCHANGED updOps

NextUpdate ==
  \/ UpdStart
  \/ UpdConnect
  \/ UpdOpen
  \/ UpdClose
  \/ UpdTimeout
  \/ UpdServerMessage

(***************************************************************************)
(* Part 7: the overlay's open/closed state (src/front/background.js        *)
(* 221-231, 325-353, 467-509).  Every page carries its own FreelainceOverlay;*)
(* each keeps isVisible and isMinimized, writes both to chrome.storage.local*)
(* whenever showChat, hideChat or minimizeChat runs, and listens to         *)
(* chrome.storage.onChanged.  chrome.storage serves the calls of one page   *)
(* in the order they were made, reports a set() to the listeners of every   *)
(* page, the writing one included, and names in `changes` only the keys     *)
(* whose value is not the one already stored.                               *)
(***************************************************************************)
MaxOverlays == 2
MaxClicks == 2
MaxPending == 2

Overlays == 1..MaxOverlays
StoredKeys == {"chatVisible", "chatMinimized"}
StoredStates == [StoredKeys -> BOOLEAN]

\* saveChatState(): one chrome.storage.local.set with both fields; `saved`
\* collects the calls the running handler has made.
saveChatState(o) ==
  [o EXCEPT !.saved = Append(@, [chatVisible |-> o.isVisible, chatMinimized |-> o.isMinimized])]

showChat(o) == saveChatState([o EXCEPT !.isVisible = TRUE, !.isMinimized = FALSE])

hideChat(o) == saveChatState([o EXCEPT !.isVisible = FALSE, !.isMinimized = FALSE])

minimizeChat(o) == saveChatState([o EXCEPT !.isMinimized = TRUE])

\* The callback of chrome.storage.local.get in loadChatState().
loadChatState(o, result) ==
  LET o1 == IF result.chatVisible THEN showChat(o) ELSE o
  IN  IF result.chatMinimized THEN minimizeChat(o1) ELSE o1

\* The listener setupStateSync() registers; `changes` maps each changed key
\* to its newValue.  Restoring from minimized saves nothing.
onChanged(o, changes) ==
  LET o1 == IF "chatVisible" \in DOMAIN changes
            THEN IF changes.chatVisible /\ ~o.isVisible THEN showChat(o)
                 ELSE IF ~changes.chatVisible /\ o.isVisible THEN hideChat(o)
                 ELSE o
            ELSE o
  IN  IF "chatMinimized" \in DOMAIN changes
      THEN IF changes.chatMinimized /\ ~o1.isMinimized THEN minimizeChat(o1)
           ELSE IF ~changes.chatMinimized /\ o1.isMinimized
                THEN [o1 EXCEPT !.isMinimized = FALSE]
                ELSE o1
      ELSE o1

\* What chrome.storage hands to the onChanged listeners for a set(items).
Changes(items) ==
  LET ks == {k \in StoredKeys : storageLocal[k] # items[k]}
  IN  [k \in ks |-> items[k]]

\* Overlay i as a handler sees it, with no set call made yet.
OvCur(i) ==
  [isVisible |-> overlay[i].isVisible, isMinimized |-> overlay[i].isMinimized, saved |-> <<>>]

\* A handler of overlay i ran to its end: its fields, and its set calls
\* queued behind the earlier ones of the same page.
OvCommit(i, o, rest, name) ==
  /\ Len(pendingSets[i]) + Len(o.saved) <= MaxPending
  /\ overlay' = [overlay EXCEPT ![i] = [isVisible |-> o.isVisible, isMinimized |-> o.isMinimized]]
  /\ pendingSets' = [pendingSets EXCEPT ![i] = @ \o o.saved]
  /\ ovInbox' = [ovInbox EXCEPT ![i] = rest]
  /\ ovOp' = <<name, i>>
  /\ UNCHANGED <<storageLocal, wsVars, calVars, offVars, cfVars, sfVars, updVars, linkVars>>

OvClick(i, o, name) ==
  /\ ovClicks < MaxClicks
  /\ ovClicks' = ovClicks + 1
  /\ OvCommit(i, o, ovInbox[i], name)
  /\ UNCHANGED ovLoading

\* The toggle button is displayed while the chat is not: toggleChat() then
\* calls showChat().
ToggleClick(i) ==
  /\ ~overlay[i].isVisible
  /\ OvClick(i, showChat(OvCur(i)), "show")

\* The close and minimize buttons sit in the chat's header.
CloseClick(i) ==
  /\ overlay[i].isVisible
  /\ OvClick(i, hideChat(OvCur(i)), "hide")

MinimizeClick(i) ==
  /\ overlay[i].isVisible
  /\ OvClick(i, minimizeChat(OvCur(i)), "minimize")

\* chrome.storage serves the get of loadChatState(): the record it read is
\* on its way to the page's callback.
StorageGet(i) ==
  /\ ovLoading[i]
  /\ Len(ovInbox[i]) < MaxPending
  /\ ovLoading' = [ovLoading EXCEPT ![i] = FALSE]
  /\ ovInbox' = [ovInbox EXCEPT ![i] = Append(@, <<"get", storageLocal>>)]
  /\ ovOp' = <<"get", i>>
  /\ UNCHANGED <<storageLocal, overlay, pendingSets, ovClicks>>
  /\ UNCHANGED <<wsVars, calVars, offVars, cfVars, sfVars, updVars, linkVars>>

\* chrome.storage serves the oldest set of page i: the record is stored and,
\* when a value changed, onChanged is on its way to every overlay.
StorageSet(i) ==
  /\ pendingSets[i] # <<>>
  /\ LET items == Head(pendingSets[i])
         changes == Changes(items)
     IN  /\ storageLocal' = items
         /\ IF DOMAIN changes = {}
            THEN ovInbox' = ovInbox
            ELSE /\ \A p \in Overlays : Len(ovInbox[p]) < MaxPending
                 /\ ovInbox' = [p \in Overlays |-> Append(ovInbox[p], <<"onChanged", changes>>)]
  /\ pendingSets' = [pendingSets EXCEPT ![i] = Tail(@)]
  /\ ovOp' = <<"set", i>>
  /\ UNCHANGED <<overlay, ovLoading, ovClicks>>
  /\ UNCHANGED <<wsVars, calVars, offVars, cfVars, sfVars, updVars, linkVars>>

\* Page i runs the oldest callback chrome.storage has for it.
StorageCallback(i) ==
  /\ ovInbox[i] # <<>>
  /\ LET e == Head(ovInbox[i])
         o == IF e[1] = "get" THEN loadChatState(OvCur(i), e[2])
              ELSE onChanged(OvCur(i), e[2])
     IN  OvCommit(i, o, Tail(ovInbox[i]), e[1])
  /\ UNCHANGED <<ovLoading, ovClicks>>

\* The overlays of the open pages right after construction (isVisible and
\* isMinimized false, the get of loadChatState under way), over what
\* earlier pages left in chrome.storage.local.
OvInitWith(left) ==
  /\ storageLocal \in left
  /\ overlay = [i \in Overlays |-> [isVisible |-> FALSE, isMinimized |-> FALSE]]
  /\ pendingSets = [i \in Overlays |-> <<>>]
  /\ ovInbox = [i \in Overlays |-> <<>>]
  /\ ovLoading = [i \in Overlays |-> TRUE]
  /\ ovClicks = 0
  /\ ovOp = <<"init", 0>>

NothingShown == [k \in StoredKeys |-> FALSE]

NextOverlay ==
  \E i \in Overlays :
    \/ ToggleClick(i)
    \/ CloseClick(i)
    \/ MinimizeClick(i)
    \/ StorageGet(i)
    \/ StorageSet(i)
    \/ StorageCallback(i)

\* No popup is open and the server is down, as far as the parts above go.
LinkInit ==
  /\ shown = FALSE
  /\ accepts = FALSE

\* ------------------------------------------------------------ specifications
\* The controller on its own: the calendar page is not open.
Init ==
  /\ WsInit(Variants)
  /\ CalInitWith(NoItem)
  /\ OffInitWith(NoItem)
  /\ CfInitWith(<<>>)
  /\ SfInitWith(NoSurface)
  /\ UpdInit
  /\ LinkInit
  /\ OvInitWith({NothingShown})

Spec == Init /\ [][Next]_vars

\* The controller with its timers firing: a callback handed to setTimeout
\* runs eventually.  Nothing obliges the network to answer a connection
\* attempt, so the browser's open and close events get no such condition.
SpecFair == Spec /\ WF_vars(RetryTimer) /\ WF_vars(ManualTimer)

\* The calendar page on its own, over whatever localStorage holds.
InitCal ==
  /\ WsInit({"extension"})
  /\ \E item \in InitialItems : CalInitWith(item)
  /\ OffInitWith(NoItem)
  /\ CfInitWith(<<>>)
  /\ SfInitWith(NoSurface)
  /\ UpdInit
  /\ LinkInit
  /\ OvInitWith({NothingShown})

SpecCal == InitCal /\ [][NextCal]_vars

\* The offers page on its own, over whatever localStorage holds.
InitOffers ==
  /\ WsInit({"extension"})
  /\ CalInitWith(NoItem)
  /\ \E item \in InitialOfferItems : OffInitWith(item)
  /\ CfInitWith(<<>>)
  /\ SfInitWith(NoSurface)
  /\ UpdInit
  /\ LinkInit
  /\ OvInitWith({NothingShown})

SpecOffers == InitOffers /\ [][NextOffers]_vars

\* The conflict mark over every cache of the pool.
InitConflicts ==
  /\ WsInit({"extension"})
  /\ CalInitWith(NoItem)
  /\ OffInitWith(NoItem)
  /\ \E events \in Caches : CfInitWith(events)
  /\ SfInitWith(NoSurface)
  /\ UpdInit
  /\ LinkInit
  /\ OvInitWith({NothingShown})

SpecConflicts == InitConflicts /\ [][NextConflicts]_vars

\* The surfaces of either controller, whichever is in the foreground at
\* the start.
InitSurfaces ==
  /\ WsInit(Variants)
  /\ CalInitWith(NoItem)
  /\ OffInitWith(NoItem)
  /\ CfInitWith(<<>>)
  /\ \E s \in AllSurfaces \cup {NoSurface} :
       /\ s \in Surfaces(variant) \cup {NoSurface}
       /\ SfInitWith(s)
  /\ UpdInit
  /\ LinkInit
  /\ OvInitWith({NothingShown})

SpecSurfaces == InitSurfaces /\ [][NextSurfaces]_vars

\* The offers page with its offers loaded from the cache, and the status
\* updates its buttons start.
InitUpdate ==
  /\ WsInit({"extension"})
  /\ CalInitWith(NoItem)
  /\ \E item \in InitialOfferItems \ {NoItem} : OffInitWith(item)
  /\ CfInitWith(<<>>)
  /\ SfInitWith(NoSurface)
  /\ UpdInit
  /\ LinkInit
  /\ OvInitWith({NothingShown})

SpecUpdate == InitUpdate /\ [][NextUpdate]_vars

\* The extension's controller with its popup open from the start; the
\* indicator is off, as GET_CONNECTION_STATUS answers at that time.
InitPopup ==
  /\ WsInit({"extension"})
  /\ CalInitWith(NoItem)
  /\ OffInitWith(NoItem)
  /\ CfInitWith(<<>>)
  /\ SfInitWith(Popup)
  /\ UpdInit
  /\ LinkInit
  /\ OvInitWith({NothingShown})

SpecPopup == InitPopup /\ [][Next]_vars

\* The retry cycle against a server that comes up at some time, or never,
\* with timers that fire and channel events that are delivered: a
\* connecting channel gets its open event, a channel that is closing or
\* failing its close event.
SpecRetry ==
  /\ InitPopup
  /\ [][NextRetry]_vars
  /\ WF_vars(RetryTimer)
  /\ WF_vars(ChannelOpen)
  /\ WF_vars(ChannelCloseLink)

\* The overlays of the open pages over any state earlier pages have saved.
\* chrome.storage serves every call and every page runs the callbacks
\* queued for it; nothing obliges the user to click.
InitOverlay ==
  /\ WsInit({"extension"})
  /\ CalInitWith(NoItem)
  /\ OffInitWith(NoItem)
  /\ CfInitWith(<<>>)
  /\ SfInitWith(NoSurface)
  /\ UpdInit
  /\ LinkInit
  /\ OvInitWith(StoredStates)

SpecOverlay ==
  /\ InitOverlay
  /\ [][NextOverlay]_vars
  /\ \A i \in Overlays :
       WF_vars(StorageGet(i)) /\ WF_vars(StorageSet(i)) /\ WF_vars(StorageCallback(i))

\* The same with the callbacks the browser is bound to run: chrome.storage
\* calls back with the stored address, and the 5 s timer fires.  Nothing
\* obliges the server to accept the connection or to answer.
SpecUpdateFair == SpecUpdate /\ WF_vars(UpdConnect) /\ WF_vars(UpdTimeout)

\* ------------------------------------------------------------ properties of the controller

Connected == isConnected /\ ws # NoChannel /\ readyState[ws] = "OPEN"

Notification(type, data) == [type |-> type, data |-> data]

SyncRequest(c) == [ch |-> c, type |-> "sync_history", message |-> "sync_history"]

\* sendMessage never dereferences a null this.ws: the test of readyState is
\* reached only with isConnected true, and then this.ws is a channel.
NoNullDereference == isConnected => ws # NoChannel

\* C1: since the last channel open (or since construction), the retries
\* attemptReconnect has scheduled number at most maxReconnectAttempts, and the
\* k-th of them was scheduled with delay reconnectDelay * k.  This holds with
\* or without RECONNECT requests in between.
C1_RetrySchedule ==
  /\ Len(sched) <= maxReconnectAttempts
  /\ \A k \in 1..Len(sched) : sched[k] = reconnectDelay * k

\* C1 witness: all maxReconnectAttempts retries have been scheduled and
\* fired, and a further close event has been handled without a sixth.
C1_Witness ==
  /\ op.name = "close"
  /\ Len(sched) = maxReconnectAttempts
  /\ timers = EmptyBag

ConnectCallers == {"loadSettings", "retryTimer", "reconnectTimer", "updateTimer"}

\* C2: a connect() made while the controller is Connected (isConnected) or
\* Connecting (this.ws in CONNECTING state) creates no channel, closes none,
\* and leaves isConnected, reconnectAttempts and apiUrl as they were.  (The
\* retry callback calls connect() only when isConnected is false; loadSettings
\* assigns apiUrl itself before it calls connect().)
C2_ConnectIdempotent ==
  [][(/\ op'.name \in ConnectCallers
      /\ isConnected \/ IsConnecting(Cur)
      /\ op'.name = "retryTimer" => ~isConnected)
     => (/\ attempted' = "none"
         /\ readyState' = readyState
         /\ ws' = ws
         /\ isConnected' = isConnected
         /\ reconnectAttempts' = reconnectAttempts
         /\ op'.name # "loadSettings" => apiUrl' = apiUrl)]_vars

\* C2 witness: the connect() of a RECONNECT timer was refused while Connected.
C2_Witness ==
  /\ op.name = "reconnectTimer"
  /\ attempted = "none"
  /\ Connected

\* C3: a SEND_MESSAGE or REQUEST_HISTORY handled while the controller is not
\* Connected writes nothing to any channel and emits exactly one notification,
\* of type ERROR.
C3_SendRejected ==
  [][(op'.name \in {"SEND_MESSAGE", "REQUEST_HISTORY"} /\ ~Connected)
     => (/\ wire' = wire
         /\ Len(emitted') = 1
         /\ emitted'[1].type = "ERROR")]_vars

\* C3 witness: a SEND_MESSAGE was rejected while this.ws was open but
\* isConnected false.
C3_Witness ==
  /\ op.name = "SEND_MESSAGE"
  /\ ~isConnected
  /\ ws # NoChannel /\ readyState[ws] = "OPEN"
  /\ Len(emitted) = 1 /\ emitted[1].type = "ERROR"

\* The retries are used up: the counter is at its ceiling, start-up is over,
\* no timer is pending and no channel is connecting or open.
Exhausted ==
  /\ settingsLoaded
  /\ reconnectAttempts = maxReconnectAttempts
  /\ timers = EmptyBag
  /\ \A c \in Channels : readyState[c] \notin {"CONNECTING", "OPEN"}

\* C4: once the retries are used up, every step other than a RECONNECT or
\* UPDATE_API_URL request leaves them used up: the controller stays
\* Disconnected, no timer is set and no connection attempt is made.  A
\* RECONNECT request sets the 100 ms timer, and when that timer fires with the
\* controller neither Connected nor Connecting, connect() makes an attempt.
C4_StopsUntilManual ==
  /\ [][(Exhausted /\ op'.name \notin ManualRequests)
        => (Exhausted' /\ ~isConnected' /\ attempted' = "none")]_vars
  /\ [][(Exhausted /\ op'.name = "RECONNECT")
        => BagIn(Timer("RECONNECT", ManualDelay), timers')]_vars
  /\ [][(/\ op'.name = "reconnectTimer"
         /\ reconnectAttempts = maxReconnectAttempts
         /\ ~isConnected /\ ~IsConnecting(Cur))
        => attempted' # "none"]_vars

\* C4 witness: with the counter at its ceiling and nothing else pending, the
\* timer of a RECONNECT request has fired and created a channel.
C4_Witness ==
  /\ op.name = "reconnectTimer"
  /\ attempted = "created"
  /\ reconnectAttempts = maxReconnectAttempts
  /\ timers = EmptyBag
  /\ \A c \in Channels : c # ws => readyState[c] \in {"NONE", "CLOSED"}

\* C5 as stated: every channel open resets the attempt counter, sets
\* isConnected, emits CONNECTION_STATUS connected=true and writes a
\* sync_history request to the channel that opened.
C5_OpenSideEffects_Original ==
  [][op'.name = "open"
     => (/\ reconnectAttempts' = 0
         /\ isConnected'
         /\ emitted' = <<Notification("CONNECTION_STATUS", TRUE)>>
         /\ wire' = Append(wire, SyncRequest(op'.ch)))]_vars

\* C5 amended: every channel open resets the attempt counter, sets
\* isConnected and emits CONNECTION_STATUS connected=true; the popup
\* extension's controller also writes a sync_history request to the channel
\* that opened, the front end's controller writes nothing.
C5_OpenSideEffects ==
  [][op'.name = "open"
     => (/\ reconnectAttempts' = 0
         /\ isConnected'
         /\ emitted' = <<Notification("CONNECTION_STATUS", TRUE)>>
         /\ wire' = IF variant = "extension"
                    THEN Append(wire, SyncRequest(op'.ch))
                    ELSE wire)]_vars

\* C5 witness: a channel opened after a retry, the counter is back at 0 and
\* the sync request is the last thing written, on that channel.
C5_Witness ==
  /\ op.name = "open"
  /\ op.ch > 1
  /\ reconnectAttempts = 0
  /\ isConnected
  /\ wire # <<>>
  /\ wire[Len(wire)] = SyncRequest(op.ch)

\* disconnect() has been called and no connect() has run since.
UserDisconnected == ws = NoChannel /\ Created(Cur) > 0

\* C6 as stated: after disconnect(), a close event schedules no retry and a
\* retry timer creates no channel.
C6_NoRetryAfterDisconnect ==
  [][(UserDisconnected /\ op'.name \in {"close", "retryTimer"})
     => (sched' = sched /\ attempted' = "none")]_vars

UserMessage(c, m) == [ch |-> c, type |-> "user_message", message |-> m]

\* The request handled now repeats the chat message of the request handled
\* just before it, which was written to the channel that is still open: the
\* two fall into one time bucket whenever they are sent quickly enough.
RepeatedSend ==
  /\ op.name = "SEND_MESSAGE"
  /\ op'.name = "SEND_MESSAGE"
  /\ op'.message = op.message
  /\ Connected
  /\ wire # <<>>
  /\ wire[Len(wire)] = UserMessage(ws, op.message)

\* C13 as stated: of two identical chat messages sent one after the other
\* exactly one is written to the channel, and a message with other content
\* is written.
C13_Deduplication_Original ==
  [][/\ RepeatedSend => wire' = wire
     /\ (op'.name = "SEND_MESSAGE" /\ Connected /\ ~RepeatedSend)
          => wire' = Append(wire, UserMessage(ws, op'.message))]_vars

\* C13 amended: the controller does not deduplicate.  Every chat message
\* sent while Connected is written to the channel exactly once by its own
\* request, also when it repeats the message written just before it, and a
\* message with other content is never dropped.
C13_EverySendWritten ==
  [][(op'.name = "SEND_MESSAGE" /\ Connected)
     => (/\ wire' = Append(wire, UserMessage(ws, op'.message))
         /\ emitted' = <<>>)]_vars

\* Two identical chat messages were sent in a row and both are on the wire.
C13_Witness ==
  /\ op.name = "SEND_MESSAGE"
  /\ Len(wire) >= 2
  /\ wire[Len(wire)] = UserMessage(ws, op.message)
  /\ wire[Len(wire) - 1] = UserMessage(ws, op.message)

\* What the step has written to the channels.
Written == {wire'[i] : i \in (Len(wire) + 1)..Len(wire')}

\* C16: a chat message whose send was rejected is dropped, not queued: what
\* is on the channels stays, and a later step writes that message only when
\* it is the step of a new SEND_MESSAGE request for it, handled while
\* Connected; the open of a later channel writes no chat message at all.
C16_RejectedNeverWritten ==
  [][/\ Len(wire') >= Len(wire)
     /\ SubSeq(wire', 1, Len(wire)) = wire
     /\ \A w \in Written :
          (w.type = "user_message" /\ w.message \in rejected)
            => (op'.name = "SEND_MESSAGE" /\ op'.message = w.message /\ Connected)
     /\ op'.name = "open" => \A w \in Written : w.type # "user_message"]_vars

\* A send was rejected, the controller connected again later, and no chat
\* message is on any channel.
C16_Witness ==
  /\ rejected # {}
  /\ op.name = "open"
  /\ Connected
  /\ \A i \in 1..Len(wire) : wire[i].type # "user_message"

\* C17: handling UPDATE_API_URL tears the connection down and starts a
\* cycle to the new address with a fresh retry budget: the current channel
\* is no longer connecting or open, the controller is not connected, the
\* timer whose callback is connect() is set, reconnectAttempts is 0, and
\* when that timer fires the channel connect() creates is one to the
\* address the controller then holds.
C17_UpdateRestartsCycle ==
  [][/\ op'.name = "UPDATE_API_URL" =>
          /\ ws # NoChannel => readyState'[ws] \notin {"CONNECTING", "OPEN"}
          /\ ~isConnected'
          /\ \E t \in BagToSet(timers') : t.cb = "UPDATE_API_URL"
          /\ reconnectAttempts' = 0
     /\ (op'.name = "updateTimer" /\ attempted' = "created") =>
          (ws' # ws /\ chanUrl'[ws'] = apiUrl /\ readyState'[ws'] = "CONNECTING")]_vars

\* C18: a connection attempt does not stay half-open: a channel that is
\* connecting is opened by the server's acknowledgment or, failing that,
\* closed by the controller's connection timeout, so that no channel is
\* CONNECTING for ever.
C18_ConnectingEnds ==
  \A c \in Channels : (readyState[c] = "CONNECTING") ~> (readyState[c] # "CONNECTING")

\* The frame is one the controller has no handler for.
Unrecognised(frame) == frame[1] # "object" \/ frame[2].type \notin KnownTypes

\* C14: an inbound frame that does not parse, or whose type is not one of
\* the known ones, is dropped: handling it emits no notification, opens no
\* tab, sets no timer and writes nothing (it is not retried), and leaves
\* isConnected, reconnectAttempts, this.ws and every channel as they were.
C14_BadFrameDropped ==
  [][(op'.name = "message" /\ Unrecognised(op'.frame)) =>
       /\ emitted' = <<>>
       /\ tabsCreated' = <<>>
       /\ UNCHANGED <<isConnected, reconnectAttempts, ws, readyState, timers, wire>>]_vars

\* A connected controller has just handled a frame of an unknown type.
C14_Witness ==
  /\ op.name = "message"
  /\ op.frame[1] = "object"
  /\ op.frame[2].type \notin KnownTypes
  /\ isConnected
  /\ op.ch = ws

\* C15: a frame of a known type goes to exactly one handler: bot_response
\* and chat_answer give exactly one NEW_MESSAGE notification,
\* conversation_history exactly one CONVERSATION_HISTORY notification,
\* system_message exactly one SYSTEM_MESSAGE notification, each without
\* opening a tab, and open_tab creates exactly one tab.
C15_ExactlyOneHandler ==
  [][(op'.name = "message" /\ ~Unrecognised(op'.frame)) =>
       LET data == op'.frame[2]
       IN  /\ data.type \in {"bot_response", "chat_answer"} =>
                /\ emitted' = <<Notification("NEW_MESSAGE", data.message)>>
                /\ tabsCreated' = <<>>
           /\ data.type = "conversation_history" =>
                /\ emitted' = <<Notification("CONVERSATION_HISTORY", data.history)>>
                /\ tabsCreated' = <<>>
           /\ data.type = "system_message" =>
                /\ emitted' = <<Notification("SYSTEM_MESSAGE", data.message)>>
                /\ tabsCreated' = <<>>
           /\ data.type = "open_tab" => tabsCreated' = <<data.url>>]_vars

\* ------------------------------------------------------------ properties of the calendar

\* A cached event carries what the server's event says.
Reflects(e, raw) ==
  /\ raw.id # NoId => e.id = raw.id
  /\ e.title = raw.title
  /\ e.start = NewDate(OrElse(raw.start_time, raw.start))
  /\ e.end = NewDate(OrElse(raw.end_time, raw.end))

\* C7: after a events_data or schedule_data snapshot is handled, the cache
\* holds exactly the snapshot's events, one cached event per snapshot event
\* and in the snapshot's order, and localStorage holds that same collection;
\* nothing cached before survives unless the snapshot carries it.
C7_SnapshotReplacesCache ==
  [][calOp'.name = "snapshot" =>
       LET list == calOp'.input[1]
       IN  /\ Len(calEvents') = Len(list)
           /\ \A i \in 1..Len(list) : Reflects(calEvents'[i], list[i])
           /\ calStorage' = Stringify(calEvents')
           /\ \A e \in Range(calEvents) :
                e \in Range(calEvents') => \E i \in 1..Len(list) : Reflects(e, list[i])]_vars

\* A snapshot has just discarded an event that was added offline.
C7_Witness ==
  /\ calOp.name = "snapshot"
  /\ \E e \in calOp.input[2] : e \notin Range(calEvents)
  /\ calStorage = Stringify(calEvents)

\* The last handler wrote only what its own input asks for: a re-fetch, or
\* the request for the event the user has just saved or deleted.
OwnRequestsOnly ==
  \A i \in 1..Len(calSent') :
    LET m == calSent'[i]
    IN  \/ m.type = "get_schedule"
        \/ /\ calOp'.name = "saveEvent"
           /\ m.type = "update_event"
           /\ m.event = calOp'.input
        \/ /\ calOp'.name = "saveEvent"
           /\ m.type = "add_event"
           /\ m.event = [calOp'.input EXCEPT !.id = NoId]
        \/ /\ calOp'.name = "deleteEventById"
           /\ m.type = "delete_event"
           /\ m.id = calOp'.input

\* A valid form is saved while the socket is not open.
OfflineSave == calOp'.name = "saveEvent" /\ calSocket # "OPEN"
                 /\ DateLess(calOp'.input.start, calOp'.input.end)

OfflineDelete == calOp'.name = "deleteEventById" /\ calSocket # "OPEN"

Cached(id) == \E i \in 1..Len(calEvents) : calEvents[i].id = id

OfflineCreateApplied ==
  (OfflineSave /\ calSelected = NoEvent) =>
     /\ calEvents' = Append(calEvents, calOp'.input)
     /\ calStorage' = Stringify(calEvents')
     /\ calSent' = <<>>

OfflineUpdateApplied ==
  /\ Len(calEvents') = Len(calEvents)
  /\ calOp'.input \in Range(calEvents')
  /\ \A i \in 1..Len(calEvents) : calEvents[i].id # calOp'.input.id => calEvents'[i] = calEvents[i]
  /\ calStorage' = Stringify(calEvents')
  /\ calSent' = <<>>

OfflineDeleteApplied ==
  OfflineDelete =>
     /\ \A i \in 1..Len(calEvents') : calEvents'[i].id # calOp'.input
     /\ Range(calEvents') = {e \in Range(calEvents) : e.id # calOp'.input}
     /\ calStorage' = Stringify(calEvents')
     /\ calSent' = <<>>

\* C8 as stated: every create, update or delete made while the socket is
\* not open is applied to the cache and persisted, nothing is written to
\* the socket for it, and no later step transmits it.
C8_OfflineMutation_Original ==
  [][/\ OfflineCreateApplied
     /\ (OfflineSave /\ calSelected # NoEvent) => OfflineUpdateApplied
     /\ OfflineDeleteApplied
     /\ OwnRequestsOnly]_vars

\* C8: a create or delete made while the socket is not open, and an update
\* of an event that is still cached, is applied to the cache and persisted,
\* and nothing is written to the socket; an update of an event that is no
\* longer cached changes nothing at all; whatever a later step writes to the
\* socket is that step's own request, never an earlier offline mutation.
C8_OfflineMutation ==
  [][/\ OfflineCreateApplied
     /\ (OfflineSave /\ calSelected # NoEvent /\ Cached(calSelected)) => OfflineUpdateApplied
     /\ (OfflineSave /\ calSelected # NoEvent /\ ~Cached(calSelected)) =>
           (calEvents' = calEvents /\ calStorage' = calStorage /\ calSent' = <<>>)
     /\ OfflineDeleteApplied
     /\ OwnRequestsOnly]_vars

\* A reloaded page has connected while an event added offline is still in
\* its cache, and all it wrote to the socket is the re-fetch.
C8_Witness ==
  /\ calOp.name = "open"
  /\ calLocal # {}
  /\ calLocal \subseteq Range(calEvents)
  /\ calSent = <<[type |-> "get_schedule"]>>

\* C9: a successful event_added, event_updated or event_deleted writes
\* exactly one get_schedule to the open socket and leaves the cache and
\* localStorage as they were; once a snapshot is handled, every event of
\* the snapshot that has an id is cached under that id with the snapshot's
\* title and times.
C9_AckRefetches ==
  [][/\ (calOp'.name = "ack" /\ calOp'.input[2] /\ calSocket = "OPEN") =>
          /\ calSent' = <<[type |-> "get_schedule"]>>
          /\ calEvents' = calEvents
          /\ calStorage' = calStorage
     /\ calOp'.name = "snapshot" =>
          \A raw \in Range(calOp'.input[1]) :
            raw.id # NoId =>
              \E e \in Range(calEvents') : e.id = raw.id /\ Reflects(e, raw)]_vars

\* A successful acknowledgment has just been handled over a non-empty cache.
C9_Witness ==
  /\ calOp.name = "ack"
  /\ calOp.input[2]
  /\ calSocket = "OPEN"
  /\ calEvents # <<>>
  /\ calSent = <<[type |-> "get_schedule"]>>

\* C10: when the connection attempt made at start-up errors or times out,
\* localStorage keeps the collection it held and the calendar's events are
\* that collection.
C10_StartupKeepsPersisted ==
  [][(calPhase = "connecting" /\ calPhase' # "connecting"
        /\ calOp'.name \in {"close", "timeout"} /\ calStorage # NoItem) =>
       /\ calStorage' = calStorage
       /\ calEvents' = ParseStored(calStorage)]_vars

\* The event the form describes does not end after it starts.
InvalidRange(e) == e.start[2] >= e.end[2]

\* C19: a save whose time range is invalid (start >= end) is blocked: the
\* handler shows the error "End time must be after start time" before it
\* returns, writes nothing to the socket, and leaves this.events, the
\* selection and localStorage as they were, online and offline alike.
C19_InvalidRangeBlocked ==
  [][(calOp'.name = "saveEvent" /\ InvalidRange(calOp'.input)) =>
       /\ calUi' = <<<<"error", "End time must be after start time">>>>
       /\ calSent' = <<>>
       /\ UNCHANGED <<calEvents, calStorage, calSelected, calSocket>>]_vars

\* An invalid save was refused while the socket was open and the cache held
\* events.
C19_Witness ==
  /\ calOp.name = "saveEvent"
  /\ InvalidRange(calOp.input)
  /\ calSocket = "OPEN"
  /\ calEvents # <<>>
  /\ calUi = <<<<"error", "End time must be after start time">>>>

\* ------------------------------------------------------------ properties of the offers page

\* The last load or refresh has ended without the server's offers.
LoadFailed == offPromise = "rejected"

\* C11: when a load or refresh of the offers ends without an answer from
\* the server (the connection errors, closes or times out), the offers held
\* and the offers in localStorage are the ones localStorage held when the
\* load or refresh began.
C11_OffersKeptWhenUnreachable ==
  (LoadFailed /\ offBefore # NoItem /\ offOp \in {"close", "timeout"})
     => (offStorage = offBefore /\ offOffers = ParseOffers(offBefore))

\* ------------------------------------------------------------ properties of the conflict mark

\* The conflict relation as stated: A.start < B.end, A.end > B.start and
\* different ids.
Conflict(A, B) ==
  /\ IsValidDate(A.start) /\ IsValidDate(B.end) /\ A.start[2] < B.end[2]
  /\ IsValidDate(A.end) /\ IsValidDate(B.start) /\ A.end[2] > B.start[2]
  /\ A.id # B.id

BackToBack(A, B) ==
  /\ IsValidDate(A.start) /\ IsValidDate(A.end) /\ IsValidDate(B.start) /\ IsValidDate(B.end)
  /\ A.start[2] < A.end[2] /\ A.end[2] = B.start[2] /\ B.start[2] < B.end[2]

\* C12: the mark hasConflicts gives an event is that some cached event
\* conflicts with it; between two cached events A and B it reports a
\* conflict iff A.start < B.end, A.end > B.start and A.id differs from B.id,
\* so never for back-to-back events, never for an event with itself, and
\* for A against B exactly when for B against A.
C12_ConflictPredicate ==
  /\ cfTarget # <<>> =>
        (cfResult <=> \E B \in Range(cfEvents) : Conflict(cfTarget[1], B))
  /\ \A A \in Range(cfEvents), B \in Range(cfEvents) :
        /\ hasConflicts(<<B>>, A) <=> Conflict(A, B)
        /\ hasConflicts(<<B>>, A) <=> hasConflicts(<<A>>, B)
        /\ ~hasConflicts(<<A>>, A)
        /\ BackToBack(A, B) => ~hasConflicts(<<B>>, A)

\* The card of an event was left unmarked although the only other cached
\* event starts when it ends, under another id.
C12_Witness ==
  /\ cfTarget # <<>>
  /\ ~cfResult
  /\ \E B \in Range(cfEvents) : B.id # cfTarget[1].id /\ BackToBack(cfTarget[1], B)

\* ------------------------------------------------------------ properties of the surfaces

\* The surfaces that have received notification number id.
DeliveredTo(id) == {s \in AllSurfaces : id \in sfInbox[s]}

Decides(value) == updResult = "pending" /\ updResult' = value

\* C21: status transitions are unconstrained.  When the server has
\* acknowledged the update, updateOfferStatus gives the offer the requested
\* status, whichever of pending, accepted, declined and completed that is
\* and whatever status the offer had; no other offer changes.
C21_AnyStatusApplied ==
  [][Decides("true") =>
       LET i == FindOffer(offOffers, updRequest.offerId)
       IN  /\ Len(offOffers') = Len(offOffers)
           /\ \A j \in 1..Len(offOffers) :
                offOffers'[j] = IF j = i
                                THEN [offOffers[j] EXCEPT !.status = updRequest.status]
                                ELSE offOffers[j]]_vars

\* The second acknowledged update of the run has just set a completed offer
\* back to pending, a transition no button offers.
C21_Witness ==
  /\ updResult = "true"
  /\ updOp = "message"
  /\ \E i \in 1..Len(offOffers) :
       /\ updOld[i].status = "completed"
       /\ offOffers[i].status = "pending"
  /\ updOps = 2


\* The reply that acknowledges an update.
Acknowledgment == <<"json", [type |-> "offer_status_updated", success |-> TRUE]>>

ErrorShown(ui) == \E k \in 1..Len(ui) : ui[k][1] = "error"

\* C28: a step changes the offers in memory or the persisted cache only when it
\* handles the server's offer_status_updated reply with success; a step that
\* decides the update as failed (failure reply, connection error, close without
\* reply, timeout) leaves both as they were and reports an error.
C28_AppliedOnlyAfterAck ==
  [][/\ (offOffers' # offOffers \/ offStorage' # offStorage)
          => /\ Decides("true")
             /\ updOp' = "message"
             /\ updFirst' = <<Acknowledgment>>
     /\ Decides("false")
          => /\ offOffers' = offOffers
             /\ offStorage' = offStorage
             /\ ErrorShown(offUi')]_vars

\* The timeout has just failed an update that asked for another status of an
\* offer of the page: the offer and the cache are as before, an error is shown.
C28_Witness ==
  /\ updOp = "timeout"
  /\ updResult = "false"
  /\ ErrorShown(offUi)
  /\ offOffers = updOld
  /\ offStorage = StringifyOffers(offOffers)
  /\ LET i == FindOffer(offOffers, updRequest.offerId)
     IN  /\ i # 0
         /\ offOffers[i].status # updRequest.status


\* C29: syncStatusWithServer always completes.  Its result is true exactly
\* when the first message received is the acknowledgment; while it is
\* undecided and the socket exists the 5 s timer is still pending; once
\* decided it changes only by a new call of updateOfferStatus; and every
\* call is decided eventually.
C29_DecidedOnce ==
  /\ [](updResult \in {"true", "false"}
          => (updResult = "true" <=> updFirst = <<Acknowledgment>>))
  /\ [](updResult = "pending" /\ updSocket # "NONE" => updTimeout)
  /\ [][(updResult \in {"true", "false"} /\ updResult' # updResult)
          => (updOp' = "updateOfferStatus")]_vars
  /\ (updResult = "pending" ~> updResult \in {"true", "false"})

\* The timer fires after the acknowledgment has decided the result: the
\* result stays true.
C29_Witness ==
  /\ updOp = "timeout"
  /\ updResult = "true"
  /\ updFirst = <<Acknowledgment>>
  /\ ~updTimeout


\* ------------------------------------------------------------ properties of the calendar cache
\* The steps that hold the operations writing this.events other than the
\* load of the cache itself: a snapshot, a save or delete of the user, and
\* the failed start-up (init's catch calls loadSampleData from the handler
\* that rejected the connection).
CollectionWriters ==
  {"snapshot", "saveEvent", "deleteEventById", "establishConnection", "close", "timeout"}

\* C27: after every operation that changes the events in memory (a server
\* snapshot, an offline add, update or delete, the load of the sample data),
\* localStorage holds the JSON form of the events in memory.
C27_PersistedEqualsMemory ==
  [][(calEvents' # calEvents /\ calOp'.name \in CollectionWriters)
       => calStorage' = Stringify(calEvents')]_vars

\* An event has just been deleted while the socket is not open; others
\* remain, in memory and in localStorage alike.
C27_Witness ==
  /\ calOp.name = "deleteEventById"
  /\ calSocket # "OPEN"
  /\ calSent = <<>>
  /\ calEvents # <<>>
  /\ \A e \in Range(calEvents) : e.id # calOp.input
  /\ calStorage = Stringify(calEvents)


\* ------------------------------------------------------------ properties of the controller's channels
Live(c) == readyState[c] \in {"CONNECTING", "OPEN"}

\* C24: at most one channel the controller created is CONNECTING or OPEN,
\* and it is the one this.ws refers to.
C24_OneLiveChannel ==
  /\ Cardinality({c \in Channels : Live(c)}) <= 1
  /\ \A c \in Channels : Live(c) => c = ws

\* connect() has just replaced a channel that was open: the old one is
\* closing (it had written sync_history), the new one is connecting.
C24_Witness ==
  /\ attempted = "created"
  /\ ws # NoChannel
  /\ readyState[ws] = "CONNECTING"
  /\ \E c \in Channels :
       /\ c # ws
       /\ readyState[c] = "CLOSING"
       /\ \E k \in 1..Len(wire) : wire[k].ch = c
  /\ op.name = "retryTimer"


\* The close event being handled belongs to a channel that a newer one has
\* replaced.
StaleClose == op'.name = "close" /\ ws # NoChannel /\ op'.ch # ws

\* C25: the close event of a replaced channel leaves isConnected as it was,
\* emits no CONNECTION_STATUS connected=false and sets no retry timer; and
\* whenever the current channel is open, isConnected is true.
C25_StaleCloseIgnored ==
  /\ [][StaleClose
          => /\ isConnected' = isConnected
             /\ \A k \in 1..Len(emitted') :
                  emitted'[k] # Notification("CONNECTION_STATUS", FALSE)
             /\ timers' = timers]_vars
  /\ [](ws # NoChannel /\ readyState[ws] = "OPEN" => isConnected)


\* The timers set by attemptReconnect that have not fired yet.
PendingRetries ==
  LET retries == {t \in BagToSet(timers) : t.cb = "retry"}
  IN  BagCardinality([t \in retries |-> CopiesIn(t, timers)])

\* C26: at most one retry timer set by attemptReconnect is pending.
C26_OneRetryTimer == PendingRetries <= 1


\* C30: the response to a SEND_MESSAGE request says success only when the
\* request's message has been written to the channel.
C30_SuccessMeansWritten ==
  [][(/\ op'.name = "SEND_MESSAGE"
      /\ op'.response = <<[success |-> TRUE]>>)
     => (/\ Len(wire') = Len(wire) + 1
         /\ wire'[Len(wire')].message = op'.message)]_vars


\* ------------------------------------------------------------ properties of the connection status
\* No channel event is pending: no channel is waiting for its open or its
\* close event.
Quiescent == \A c \in Channels : readyState[c] \notin {"CONNECTING", "CLOSING"}

\* C23: every channel open emits CONNECTION_STATUS connected=true, every
\* channel close emits connected=false, and once no channel event is pending
\* the status the popup received last (what its indicator shows) equals
\* isConnected.
C23_StatusFollows ==
  /\ [][op'.name = "open"
          => \E k \in 1..Len(emitted') :
               emitted'[k] = Notification("CONNECTION_STATUS", TRUE)]_vars
  /\ [][op'.name = "close"
          => \E k \in 1..Len(emitted') :
               emitted'[k] = Notification("CONNECTION_STATUS", FALSE)]_vars
  /\ [](Quiescent => shown = isConnected)

\* The close event of a replaced channel has arrived after the open of its
\* successor: the indicator is off and so is isConnected, though the current
\* channel is open.
C23_Witness ==
  /\ op.name = "close"
  /\ Quiescent
  /\ ws # NoChannel
  /\ readyState[ws] = "OPEN"
  /\ ~shown
  /\ ~isConnected


\* A channel has just closed with attempts left, and the server the
\* controller's address names is up: the stored address has been read and
\* is a URL.
ClosedWithAttemptsLeft ==
  /\ op.name = "close"
  /\ op.attempts < maxReconnectAttempts
  /\ accepts
  /\ settingsLoaded
  /\ ValidUrl(apiUrl)

Quiet ==
  \A i \in Overlays : pendingSets[i] = <<>> /\ ovInbox[i] = <<>> /\ ~ovLoading[i]

Mirrors ==
  \A i \in Overlays :
    /\ overlay[i].isVisible = storageLocal.chatVisible
    /\ overlay[i].isMinimized = storageLocal.chatMinimized

\* A call or a callback is held back by MaxPending: the run says nothing
\* about what follows.
Saturated ==
  \/ \E i \in Overlays : ovLoading[i] /\ ~ENABLED StorageGet(i)
  \/ \E i \in Overlays : pendingSets[i] # <<>> /\ ~ENABLED StorageSet(i)
  \/ \E i \in Overlays : ovInbox[i] # <<>> /\ ~ENABLED StorageCallback(i)

\* Whenever nothing is under way, every overlay shows what is stored.
QuietMirrors == Quiet => Mirrors

\* C31: the mirroring of the overlays' open/closed state converges: the
\* user clicks show, hide and minimize in any overlays a finite number of
\* times, and from some time on no storage write and no change notification
\* is under way and every overlay's (isVisible, isMinimized) equals the
\* stored (chatVisible, chatMinimized).
C31_MirroringConverges == <>[](Quiet /\ Mirrors) \/ <>Saturated

====
